---- MODULE Spec2Model ----
(***************************************************************************)
(* A model of src/db.js: the key-value stores (createStore), the request   *)
(* lock (createRequestLock) in its Redis and in-process variants, and the  *)
(* values they serialise with JSON.stringify / JSON.parse.                 *)
(*                                                                         *)
(* Text is modelled as a sequence of one-character strings, so that        *)
(* serialisation and parsing are computed and not assumed.  Numbers are    *)
(* integers, strings are over a small alphabet whose only escapes are the  *)
(* quote and the backslash.  Failures of the Redis connection or of the    *)
(* SQLite file (I/O errors) are not modelled.                              *)
(***************************************************************************)
EXTENDS Integers, Sequences, FiniteSets, TLC

(***************************************************************************)
(* JavaScript values                                                       *)
(***************************************************************************)
JsValue(t, b, n, s, keys, kids) ==
    [t |-> t, b |-> b, n |-> n, s |-> s, keys |-> keys, kids |-> kids]

JsUndefined == JsValue("undefined", FALSE, 0, <<>>, <<>>, <<>>)

JsNull == JsValue("null", FALSE, 0, <<>>, <<>>, <<>>)

JsBool(b) == JsValue("bool", b, 0, <<>>, <<>>, <<>>)

JsNum(n) == JsValue("num", FALSE, n, <<>>, <<>>, <<>>)

JsStr(s) == JsValue("str", FALSE, 0, s, <<>>, <<>>)

JsArr(kids) == JsValue("arr", FALSE, 0, <<>>, <<>>, kids)

\* keys[i] is the name of the member whose value is kids[i]
JsObj(keys, kids) == JsValue("obj", FALSE, 0, <<>>, keys, kids)

\* what a call completes with: a value, or a raised error named in err
Returned(v) == [threw |-> FALSE, val |-> v, err |-> ""]

Raised(e) == [threw |-> TRUE, val |-> JsUndefined, err |-> e]

(***************************************************************************)
(* JSON.stringify                                                          *)
(***************************************************************************)
DigitChar(d) == <<"0", "1", "2", "3", "4", "5", "6", "7", "8", "9">>[d + 1]

RECURSIVE Digits(_)
Digits(n) ==
    IF n < 10 THEN <<DigitChar(n)>>
    ELSE Digits(n \div 10) \o <<DigitChar(n % 10)>>

NumberText(n) == IF n < 0 THEN <<"-">> \o Digits(0 - n) ELSE Digits(n)

RECURSIVE QuoteChars(_)
QuoteChars(s) ==
    IF s = <<>> THEN <<>>
    ELSE (IF Head(s) \in {"\"", "\\"} THEN <<"\\", Head(s)>> ELSE <<Head(s)>>)
         \o QuoteChars(Tail(s))

QuoteText(s) == <<"\"">> \o QuoteChars(s) \o <<"\"">>

RECURSIVE JSONstringify(_)
RECURSIVE StringifyElements(_, _)
RECURSIVE StringifyMembers(_, _, _)
StringifyElements(kids, i) ==
    IF i > Len(kids) THEN <<>>
    ELSE (IF i > 1 THEN <<",">> ELSE <<>>)
         \o JSONstringify(kids[i]) \o StringifyElements(kids, i + 1)

StringifyMembers(keys, kids, i) ==
    IF i > Len(keys) THEN <<>>
    ELSE (IF i > 1 THEN <<",">> ELSE <<>>)
         \o QuoteText(keys[i]) \o <<":">> \o JSONstringify(kids[i])
         \o StringifyMembers(keys, kids, i + 1)

JSONstringify(v) ==
    CASE v.t = "null" -> <<"n", "u", "l", "l">>
      [] v.t = "bool" -> IF v.b THEN <<"t", "r", "u", "e">>
                         ELSE <<"f", "a", "l", "s", "e">>
      [] v.t = "num" -> NumberText(v.n)
      [] v.t = "str" -> QuoteText(v.s)
      [] v.t = "arr" -> <<"[">> \o StringifyElements(v.kids, 1) \o <<"]">>
      [] v.t = "obj" -> <<"{">> \o StringifyMembers(v.keys, v.kids, 1) \o <<"}">>

(***************************************************************************)
(* JSON.parse: a recursive-descent parser.  A parse step yields            *)
(* [ok, val, rest]: whether a value was read, the value, the text left.    *)
(***************************************************************************)
ParseFail == [ok |-> FALSE, val |-> JsUndefined, rest |-> <<>>]

ParseOk(v, rest) == [ok |-> TRUE, val |-> v, rest |-> rest]

IsPrefix(p, s) == Len(p) <= Len(s) /\ SubSeq(s, 1, Len(p)) = p

Drop(s, n) == SubSeq(s, n + 1, Len(s))

RECURSIVE SkipWs(_)
SkipWs(s) == IF s # <<>> /\ Head(s) = " " THEN SkipWs(Tail(s)) ELSE s

DigitValue(c) ==
    CASE c = "0" -> 0 [] c = "1" -> 1 [] c = "2" -> 2 [] c = "3" -> 3
      [] c = "4" -> 4 [] c = "5" -> 5 [] c = "6" -> 6 [] c = "7" -> 7
      [] c = "8" -> 8 [] c = "9" -> 9

IsDigit(c) == c \in {"0", "1", "2", "3", "4", "5", "6", "7", "8", "9"}

\* the digits at the head of s, read into acc
RECURSIVE ParseDigits(_, _)
ParseDigits(s, acc) ==
    IF s # <<>> /\ IsDigit(Head(s))
    THEN ParseDigits(Tail(s), acc * 10 + DigitValue(Head(s)))
    ELSE [n |-> acc, rest |-> s]

\* JSON numbers: an optional minus, then 0 or digits not starting with 0
ParseNumber(s) ==
    LET neg == s # <<>> /\ Head(s) = "-"
        body == IF neg THEN Tail(s) ELSE s
    IN  IF body = <<>> \/ ~IsDigit(Head(body)) THEN ParseFail
        ELSE IF Head(body) = "0"
             THEN ParseOk(JsNum(0), Tail(body))
             ELSE LET d == ParseDigits(body, 0)
                  IN  ParseOk(JsNum(IF neg THEN 0 - d.n ELSE d.n), d.rest)

\* the characters after an opening quote, up to the closing quote
RECURSIVE ParseChars(_, _)
ParseChars(s, acc) ==
    IF s = <<>> THEN ParseFail
    ELSE IF Head(s) = "\"" THEN ParseOk(JsStr(acc), Tail(s))
    ELSE IF Head(s) = "\\"
         THEN IF Len(s) >= 2 /\ s[2] \in {"\"", "\\"}
              THEN ParseChars(Drop(s, 2), Append(acc, s[2]))
              ELSE ParseFail
    ELSE ParseChars(Tail(s), Append(acc, Head(s)))

RECURSIVE ParseValue(_)
RECURSIVE ParseElements(_, _)
RECURSIVE ParseMembers(_, _, _)
\* s follows "[" or a ","; kids are the elements read so far
ParseElements(s, kids) ==
    LET r == ParseValue(s)
        after == SkipWs(r.rest)
    IN  IF ~r.ok \/ after = <<>> THEN ParseFail
        ELSE IF Head(after) = "]"
             THEN ParseOk(JsArr(Append(kids, r.val)), Tail(after))
        ELSE IF Head(after) = ","
             THEN ParseElements(Tail(after), Append(kids, r.val))
        ELSE ParseFail

\* s follows "{" or a ","; keys and kids are the members read so far
ParseMembers(s, keys, kids) ==
    LET t == SkipWs(s)
        k == IF t # <<>> /\ Head(t) = "\"" THEN ParseChars(Tail(t), <<>>)
             ELSE ParseFail
        colon == SkipWs(k.rest)
        r == IF k.ok /\ colon # <<>> /\ Head(colon) = ":"
             THEN ParseValue(Tail(colon)) ELSE ParseFail
        after == SkipWs(r.rest)
    IN  IF ~r.ok \/ after = <<>> THEN ParseFail
        ELSE IF Head(after) = "}"
             THEN ParseOk(JsObj(Append(keys, k.val.s), Append(kids, r.val)),
                          Tail(after))
        ELSE IF Head(after) = ","
             THEN ParseMembers(Tail(after), Append(keys, k.val.s),
                               Append(kids, r.val))
        ELSE ParseFail

ParseValue(text) ==
    LET s == SkipWs(text)
    IN  IF s = <<>> THEN ParseFail
        ELSE IF IsPrefix(<<"n", "u", "l", "l">>, s) THEN ParseOk(JsNull, Drop(s, 4))
        ELSE IF IsPrefix(<<"t", "r", "u", "e">>, s)
             THEN ParseOk(JsBool(TRUE), Drop(s, 4))
        ELSE IF IsPrefix(<<"f", "a", "l", "s", "e">>, s)
             THEN ParseOk(JsBool(FALSE), Drop(s, 5))
        ELSE IF Head(s) = "\"" THEN ParseChars(Tail(s), <<>>)
        ELSE IF Head(s) = "-" \/ IsDigit(Head(s)) THEN ParseNumber(s)
        ELSE IF Head(s) = "["
             THEN IF SkipWs(Tail(s)) # <<>> /\ Head(SkipWs(Tail(s))) = "]"
                  THEN ParseOk(JsArr(<<>>), Tail(SkipWs(Tail(s))))
                  ELSE ParseElements(Tail(s), <<>>)
        ELSE IF Head(s) = "{"
             THEN IF SkipWs(Tail(s)) # <<>> /\ Head(SkipWs(Tail(s))) = "}"
                  THEN ParseOk(JsObj(<<>>, <<>>), Tail(SkipWs(Tail(s))))
                  ELSE ParseMembers(Tail(s), <<>>, <<>>)
        ELSE ParseFail

\* JSON.parse(text): the value, or a raised SyntaxError
JSONparse(text) ==
    LET r == ParseValue(text)
    IN  IF r.ok /\ SkipWs(r.rest) = <<>> THEN Returned(r.val)
        ELSE Raised("SyntaxError")

(***************************************************************************)
(* Deep equality of values (the toEqual of the unit tests): members of an  *)
(* object are compared by name, whatever their order.                      *)
(***************************************************************************)
RECURSIVE DeepEqual(_, _)
DeepEqual(a, b) ==
    /\ a.t = b.t
    /\ CASE a.t = "bool" -> a.b = b.b
         [] a.t = "num" -> a.n = b.n
         [] a.t = "str" -> a.s = b.s
         [] a.t = "arr" ->
                /\ Len(a.kids) = Len(b.kids)
                /\ \A i \in 1..Len(a.kids) : DeepEqual(a.kids[i], b.kids[i])
         [] a.t = "obj" ->
                /\ Len(a.keys) = Len(b.keys)
                /\ \A i \in 1..Len(a.keys) :
                     \E j \in 1..Len(b.keys) :
                        b.keys[j] = a.keys[i] /\ DeepEqual(a.kids[i], b.kids[j])
         [] OTHER -> TRUE


(***************************************************************************)
(* Bounds and input sets                                                   *)
(***************************************************************************)
\* concurrent withLock calls on the in-process lock
NMemCallers == 3

\* concurrent withLock calls on the Redis lock (of any number of processes)
NRedisCallers == 2

Callers == 1..(IF NMemCallers > NRedisCallers THEN NMemCallers ELSE NRedisCallers)

\* keys the callers lock and keep Session Records under (DIDs)
Keys == {"did:a", "did:b"}

Backends == {"redis", "sqlite"}

StoreNames == {"stateStore", "sessionStore"}

\* JSON-compatible values handed to set()
Values ==
    { JsNum(0),
      JsStr(<<>>),
      JsArr(<<JsNum(1), JsStr(<<"b">>), JsArr(<<>>), JsBool(FALSE), JsNull>>),
      JsObj(<<<<"h">>, <<"o">>>>,
            <<JsStr(<<"a", "\"", "\\">>),
              JsObj(<<<<"v">>>>, <<JsArr(<<JsBool(TRUE), JsNum(0 - 12)>>)>>)>>) }

(***************************************************************************)
(* State                                                                   *)
(***************************************************************************)
VARIABLES
    backend,        \* "redis" when REDIS_URL is set, "sqlite" otherwise
    redis,          \* the Redis keyspace: key -> entry
    sqlite,         \* the SQLite file: table -> key -> row
    lastWrite,      \* per key, the last set/del made through a store
    lastGet,        \* the get() that has just completed, and its outcome
    expected,       \* per store and key, the record the set/del calls leave
    lastEffect,     \* what the latest set/del did to the record it addressed
    isInitialized,  \* db.js: let isInitialized
    stateStore,     \* db.js: let stateStore
    sessionStore,   \* db.js: let sessionStore
    requestLock,    \* db.js: let requestLock
    redisClient,    \* db.js: let redisClient
    sqliteDb,       \* db.js: let sqliteDb
    conns,          \* per connection object ever created, where it stands
    lpc,            \* per lifecycle call, the await it is suspended at
    lconn,          \* per lifecycle call, the connection its await is on
    lastDone,       \* the manager call that has just completed, and its outcome
    mainModule,     \* which of the two server entry files runs main()
    mainPc,         \* where main() stands
    mainInit,       \* how main()'s await db.initialize() completed
    oauthClient,    \* the stores and the lock main() gave to the OAuth client
    startBackend,   \* the backend the first initialize() of the process selected
    issued,         \* per state: never issued, issued by a login, used by a callback
    request,        \* the HTTP request the application has just handled
    response,       \* what it answered, and what the handler did on the way
    now,            \* Date.now(), in hours
    inMemoryLocks,  \* the Map of the in-process lock: key -> owner of lockPromise
    waiters,        \* per caller, the calls awaiting the lockPromise it installed
    microtasks,     \* continuations ready to run, first in first out
    pc,             \* per caller, where its withLock call stands
    lkey,           \* per caller, the key its call locks
    attempts,       \* per caller, the SET NX PX commands it has sent
    found,          \* per caller, the lock entry that refused its last attempt
    local,          \* per caller, the Session Record its critical section read
    fnCalls,        \* per caller, how often fn was invoked
    fnOutcome,      \* per caller, what fn completed with
    result,         \* per caller, what withLock completed with
    updates,        \* per key, the sessionStore.set calls made by critical sections
    outlived        \* keys whose lock entry expired while its call was running

storeVars == <<redis, sqlite, lastWrite, lastGet>>

lockVars == <<inMemoryLocks, waiters, microtasks, pc, lkey, attempts, found,
              local, fnCalls, fnOutcome, result, updates, outlived>>

recordVars == <<expected, lastEffect>>

managerVars == <<isInitialized, stateStore, sessionStore, requestLock,
                 redisClient, sqliteDb>>

mainVars == <<mainModule, mainPc, mainInit, oauthClient>>

lifeVars == <<managerVars, conns, lpc, lconn, lastDone, mainVars, startBackend>>

appVars == <<issued, request, response, now>>

vars == <<backend, storeVars, lockVars, recordVars, lifeVars, appVars>>

(***************************************************************************)
(* The Redis commands and the SQLite statements db.js issues               *)
(***************************************************************************)
\* one lock entry for all keys
lockKeyShared(key) == "lock:did:a"

\* "lock:" prefix of the Redis lock entries
lockKey(key) == "lock:" \o key

RedisKeys == Keys \cup {lockKey(k) : k \in Keys}

\* a missing key (GET answers null)
RedisNil == [present |-> FALSE, val |-> <<>>, ttl |-> FALSE]

\* APPEND key text in place of SET
RedisAppend(db, key, text) ==
    [db EXCEPT ![key] = [present |-> TRUE, val |-> @.val \o text, ttl |-> FALSE]]

\* SET key text: the previous time to live is discarded
RedisSet(db, key, text) ==
    [db EXCEPT ![key] = [present |-> TRUE, val |-> text, ttl |-> FALSE]]

\* SET key text NX, the PX option forgotten: the entry never expires
RedisSetNX(db, key, text) ==
    IF db[key].present THEN db
    ELSE [db EXCEPT ![key] = [present |-> TRUE, val |-> text, ttl |-> FALSE]]

\* SET key text PX lockTimeout, the NX option forgotten
RedisSetPX(db, key, text) ==
    [db EXCEPT ![key] = [present |-> TRUE, val |-> text, ttl |-> TRUE]]

\* SET key text NX PX lockTimeout: only when the key is missing
RedisSetNXPX(db, key, text) ==
    IF db[key].present THEN db
    ELSE [db EXCEPT ![key] = [present |-> TRUE, val |-> text, ttl |-> TRUE]]

RedisGet(db, key) == db[key]

RedisDel(db, key) == [db EXCEPT ![key] = RedisNil]

Tables == {"auth_state", "auth_session"}

SqliteNoRow == [present |-> FALSE, value |-> <<>>]

\* INSERT OR IGNORE: a row that exists keeps its value
SqliteInsertOrIgnore(db, tableName, key, text) ==
    IF db[tableName][key].present THEN db
    ELSE [db EXCEPT ![tableName][key] = [present |-> TRUE, value |-> text]]

\* INSERT OR REPLACE INTO tableName (key, value) VALUES (?, ?)
SqliteInsertOrReplace(db, tableName, key, text) ==
    [db EXCEPT ![tableName][key] = [present |-> TRUE, value |-> text]]

\* SELECT value FROM tableName WHERE key = ?
SqliteSelect(db, tableName, key) == db[tableName][key]

\* DELETE FROM tableName, the WHERE clause forgotten
SqliteDeleteAll(db, tableName, key) ==
    [db EXCEPT ![tableName] = [k \in Keys |-> SqliteNoRow]]

\* DELETE FROM tableName WHERE key = ?
SqliteDelete(db, tableName, key) == [db EXCEPT ![tableName][key] = SqliteNoRow]

(***************************************************************************)
(* createStore                                                             *)
(***************************************************************************)
\* the table initialize() gives each store in SQLite mode
tableName(store) == IF store = "stateStore" THEN "auth_state" ELSE "auth_session"

RedisStoreSet(db, key, val) == RedisSet(db, key, JSONstringify(val))

\* JSON.parse(val) without the check: JSON.parse(null) is null
RedisStoreGetUnguarded(db, key) ==
    LET val == RedisGet(db, key)
    IN  IF val.present THEN JSONparse(val.val) ELSE Returned(JsNull)

\* val ? JSON.parse(val) : undefined  (null and the empty string are falsy)
RedisStoreGet(db, key) ==
    LET val == RedisGet(db, key)
    IN  IF val.present /\ val.val # <<>> THEN JSONparse(val.val)
        ELSE Returned(JsUndefined)

RedisStoreDel(db, key) == RedisDel(db, key)

SqliteStoreSet(db, store, key, val) ==
    SqliteInsertOrReplace(db, tableName(store), key, JSONstringify(val))

\* get() that hands back the stored text unparsed
SqliteStoreGetUnparsed(db, store, key) ==
    LET row == SqliteSelect(db, tableName(store), key)
    IN  IF ~row.present THEN Returned(JsUndefined)
        ELSE Returned(JsStr(row.value))

SqliteStoreGet(db, store, key) ==
    LET row == SqliteSelect(db, tableName(store), key)
    IN  IF ~row.present THEN Returned(JsUndefined)
        ELSE JSONparse(row.value)

SqliteStoreDel(db, store, key) == SqliteDelete(db, tableName(store), key)

\* store.get(key) of the running backend
StoreGet(store, key) ==
    IF backend = "redis" THEN RedisStoreGet(redis, key)
    ELSE SqliteStoreGet(sqlite, store, key)

(***************************************************************************)
(* The module state of db.js and the objects it refers to                  *)
(***************************************************************************)
\* connection objects one run creates (createClient, new Database)
MaxConns == 2

\* lifecycle calls that can be in flight next to main()'s
NCalls == 2

Conns == 1..MaxConns

\* call 0 is the await db.initialize() of main()
LifeCalls == 0..NCalls

\* a variable that was never assigned
NoRef == [is |-> "undefined", id |-> 0]

\* a variable close() has reset
NullRef == [is |-> "null", id |-> 0]

ObjRef(id) == [is |-> "object", id |-> id]

\* if (redisClient), if (sqliteDb)
Truthy(ref) == ref.is = "object"

NoInstance == [impl |-> "undefined", conn |-> 0, table |-> ""]

NullInstance == [impl |-> "null", conn |-> 0, table |-> ""]

\* createStore(redisClient, sqliteDb, tableName): the implementation is picked
\* by if (redisClient); the SQLite one captures sqliteDb whatever it is
createStore(client, db, table) ==
    IF Truthy(client) THEN [impl |-> "redis", conn |-> client.id, table |-> ""]
    ELSE [impl |-> "sqlite", conn |-> db.id, table |-> table]

\* createRequestLock(redisClient): in-process when there is no client
createRequestLock(client) ==
    IF Truthy(client) THEN [impl |-> "redis", conn |-> client.id, table |-> ""]
    ELSE [impl |-> "memory", conn |-> 0, table |-> ""]

NoDone == [op |-> "none", threw |-> FALSE, err |-> "", val |-> "undefined",
           probe |-> "none"]

\* a call that completed with val
Completed(op, val) == [NoDone EXCEPT !.op = op, !.val = val]

\* a call that raised err
Failed(op, err) == [NoDone EXCEPT !.op = op, !.threw = TRUE, !.err = err]

NoClient == [stateStore |-> NoInstance, sessionStore |-> NoInstance,
             requestLock |-> NoInstance]

\* the manager and the server once main() has run to app.listen
Connected(b) ==
    /\ isInitialized = TRUE
    /\ redisClient = IF b = "redis" THEN ObjRef(1) ELSE NoRef
    /\ sqliteDb = IF b = "redis" THEN NoRef ELSE ObjRef(1)
    /\ stateStore = createStore(redisClient, sqliteDb, IF b = "redis" THEN "" ELSE "auth_state")
    /\ sessionStore = createStore(redisClient, sqliteDb, IF b = "redis" THEN "" ELSE "auth_session")
    /\ requestLock = createRequestLock(redisClient)
    /\ conns = [i \in Conns |-> IF i = 1 THEN "open" ELSE "none"]
    /\ lpc = [c \in LifeCalls |-> "idle"]
    /\ lconn = [c \in LifeCalls |-> 0]
    /\ lastDone = Completed("initialize", "undefined")
    /\ mainModule = "server.js"
    /\ mainPc = "listening"
    /\ mainInit = "ok"
    /\ oauthClient = [stateStore |-> stateStore, sessionStore |-> sessionStore,
                      requestLock |-> NoInstance]
    /\ startBackend = b

(***************************************************************************)
(* Initial state: a connected manager, nothing stored, no call started     *)
(***************************************************************************)
NoWrite == [op |-> "none", store |-> "", val |-> JsUndefined]

NoGet == [store |-> "", key |-> "", out |-> Returned(JsUndefined)]

\* no record under a key
NoRecord == [has |-> FALSE, val |-> JsUndefined]

\* the stores whose key names the record that store's key names: a Redis key
\* is the same entry for both stores, a SQLite key is a row of the store's table
SameRecord(store) == IF backend = "redis" THEN StoreNames ELSE {store}

\* the records after store has set or deleted the one under key
Recorded(exp, store, key, rec) ==
    [s \in StoreNames |->
        IF s \in SameRecord(store) THEN [exp[s] EXCEPT ![key] = rec] ELSE exp[s]]

\* what set(key, val) does to the record it addresses: "fresh" when there
\* was none, "same" when it held val already, "replaced" otherwise
SetEffect(rec, val) ==
    IF ~rec.has THEN "fresh"
    ELSE IF rec.val = val THEN "same" ELSE "replaced"

\* what del(key) does to the record it addresses: "same" when there was none
DelEffect(rec) == IF rec.has THEN "fresh" ELSE "same"

NoOutcome == [threw |-> FALSE, val |-> JsUndefined, err |-> "pending"]

\* a request without a user_did cookie
NoCookie == [kind |-> "none", did |-> ""]

\* a request body without a text member
NoText == [t |-> "undefined", len |-> 0]

\* a query string without a limit parameter
NoLimit == [present |-> FALSE, text |-> <<>>]

NoRequest == [route |-> "", cookie |-> NoCookie, csrf |-> TRUE, state |-> "",
              did |-> "", text |-> NoText, limit |-> NoLimit]

\* limit is the limit handed to getTimeline, 0 when it was not called
NoResponse == [status |-> 0, body |-> "", setCookie |-> "", revoked |-> "none", restored |-> FALSE,
               published |-> FALSE, limit |-> 0]

\* nothing stored, no store or lock call made, no request handled
NothingStored ==
    /\ redis = [k \in RedisKeys |-> RedisNil]
    /\ sqlite = [t \in Tables |-> [k \in Keys |-> SqliteNoRow]]
    /\ lastWrite = [k \in RedisKeys |-> NoWrite]
    /\ lastGet = NoGet
    /\ expected = [s \in StoreNames |-> [k \in Keys |-> NoRecord]]
    /\ lastEffect = "fresh"
    /\ inMemoryLocks = [k \in Keys |-> 0]
    /\ waiters = [p \in Callers |-> <<>>]
    /\ microtasks = <<>>
    /\ pc = [p \in Callers |-> "idle"]
    /\ lkey = [p \in Callers |-> ""]
    /\ attempts = [p \in Callers |-> 0]
    /\ found = [p \in Callers |-> RedisNil]
    /\ local = [p \in Callers |-> JsUndefined]
    /\ fnCalls = [p \in Callers |-> 0]
    /\ fnOutcome = [p \in Callers |-> NoOutcome]
    /\ result = [p \in Callers |-> NoOutcome]
    /\ updates = [k \in Keys |-> 0]
    /\ outlived = {}
    /\ issued = [k \in Keys |-> "never"]
    /\ request = NoRequest
    /\ response = NoResponse
    /\ now = 0

Init ==
    /\ backend \in Backends
    /\ NothingStored
    /\ Connected(backend)


(***************************************************************************)
(* createRequestLock                                                       *)
(*                                                                         *)
(* A caller is one withLock(key, fn) call.  Its fn is the read-modify-write *)
(* the lock is there for: it reads the Session Record of key and writes it *)
(* back with the version raised by one, or it raises.                      *)
(*   idle     not called yet                                               *)
(*   waiting  (in-process) awaiting the lockPromise found in the Map       *)
(*   retry    (Redis) first SET NX refused, waiting the 100 ms             *)
(*   fnGet    fn invoked, its sessionStore.get not yet done                *)
(*   fnSet    fn has read, its sessionStore.set not yet done               *)
(*   fnNested fn awaits a withLock call it has made itself                 *)
(*   settled  fn has completed; the finally block has not run yet          *)
(*   relDel   (Redis) finally has read its own lockValue, DEL not yet sent *)
(*   done     withLock completed with fn's outcome                         *)
(*   failed   (Redis) withLock raised "Could not acquire lock"             *)
(* A caller whose process dies is a caller that takes no further step.     *)
(***************************************************************************)
\* `${Date.now()}-${Math.random()}`: one value per call, never repeated
lockValue(p) == <<"1", "7", "-", "0", ".">> \o Digits(p)

InCS(p) == pc[p] \in {"fnGet", "fnSet"}

\* between acquisition and the end of the finally block
Holding(p) == pc[p] \in {"fnGet", "fnSet", "fnNested", "settled", "relDel"}

\* the reply to SET NX PX: "OK" when the key was missing, null otherwise
AcquiredAlways(db, key) == TRUE

Acquired(db, key) == ~RedisGet(db, key).present

\* a finally block that never finds its own value
OwnsLockNever(cur, p) == FALSE

\* currentValue === lockValue
OwnsLock(cur, p) == cur.present /\ cur.val = lockValue(p)

\* an if in place of the while: a woken caller does not look again
MustWaitOnce(locks, key, woken) == ~woken /\ locks[key] # 0

\* while (inMemoryLocks.has(key)); woken: the caller has awaited before
MustWait(locks, key, woken) == locks[key] # 0

\* a catch that swallows what fn raised
CompletionSwallowed(outcome) ==
    IF outcome.threw THEN Returned(JsUndefined) ELSE outcome

\* try { return await fn() } finally { ... }: fn's outcome is withLock's
Completion(outcome) == outcome

\* the version a Session Record carries (none yet: 0)
Version(v) == IF v.t = "num" THEN v.n ELSE 0

\* fn() is invoked; sync: it raises before its first await
InvokeFn(p, sync) ==
    /\ fnCalls' = [fnCalls EXCEPT ![p] = @ + 1]
    /\ fnOutcome' = [fnOutcome EXCEPT ![p] = IF sync THEN Raised("fnError") ELSE @]

\* in-process: install lockPromise and run fn up to its first await
Enter(p, key, sync, queue) ==
    /\ InvokeFn(p, sync)
    /\ IF sync
       THEN \* finally runs at once: the entry is set and deleted in one turn
            /\ inMemoryLocks' = [inMemoryLocks EXCEPT ![key] = 0]
            /\ pc' = [pc EXCEPT ![p] = "done"]
            /\ result' = [result EXCEPT ![p] = Completion(Raised("fnError"))]
       ELSE /\ inMemoryLocks' = [inMemoryLocks EXCEPT ![key] = p]
            /\ pc' = [pc EXCEPT ![p] = "fnGet"]
            /\ UNCHANGED result
    /\ microtasks' = queue
    /\ UNCHANGED waiters

\* in-process: await inMemoryLocks.get(key)
Await(p, key, queue) ==
    /\ waiters' = [waiters EXCEPT ![inMemoryLocks[key]] = Append(@, p)]
    /\ pc' = [pc EXCEPT ![p] = "waiting"]
    /\ microtasks' = queue
    /\ UNCHANGED <<inMemoryLocks, fnCalls, fnOutcome, result>>

\* Redis: the call goes on after a SET NX PX that was answered "OK"
Proceed(p, sync) ==
    /\ InvokeFn(p, sync)
    /\ pc' = [pc EXCEPT ![p] = IF sync THEN "settled" ELSE "fnGet"]
    /\ UNCHANGED <<found, result>>

\* withLock(key, fn) is called: it runs up to its first await
Call(p, key, sync) ==
    /\ pc[p] = "idle"
    /\ p <= (IF backend = "redis" THEN NRedisCallers ELSE NMemCallers)
    /\ lkey' = [lkey EXCEPT ![p] = key]
    /\ IF backend = "redis"
       THEN /\ attempts' = [attempts EXCEPT ![p] = 1]
            /\ redis' = RedisSetNXPX(redis, lockKey(key), lockValue(p))
            /\ IF Acquired(redis, lockKey(key))
               THEN Proceed(p, sync)
               ELSE /\ pc' = [pc EXCEPT ![p] = "retry"]
                    /\ found' = [found EXCEPT ![p] = RedisGet(redis, lockKey(key))]
                    /\ sync = FALSE
                    /\ UNCHANGED <<fnCalls, fnOutcome, result>>
            /\ UNCHANGED <<inMemoryLocks, waiters, microtasks>>
       ELSE /\ IF MustWait(inMemoryLocks, key, FALSE)
               THEN Await(p, key, microtasks) /\ sync = FALSE
               ELSE Enter(p, key, sync, microtasks)
            /\ UNCHANGED <<redis, attempts, found>>
    /\ UNCHANGED <<backend, appVars, lifeVars, recordVars, sqlite, lastWrite, lastGet, local, updates,
                   outlived>>

\* a retry that is repeated until the lock is acquired
RetryAgain(p, sync) ==
    /\ pc[p] = "retry"
    /\ attempts' = [attempts EXCEPT ![p] = @ + 1]
    /\ redis' = RedisSetNXPX(redis, lockKey(lkey[p]), lockValue(p))
    /\ IF Acquired(redis, lockKey(lkey[p]))
       THEN Proceed(p, sync)
       ELSE /\ found' = [found EXCEPT ![p] = RedisGet(redis, lockKey(lkey[p]))]
            /\ sync = FALSE
            /\ UNCHANGED <<pc, fnCalls, fnOutcome, result>>
    /\ UNCHANGED <<backend, appVars, lifeVars, recordVars, sqlite, lastWrite, lastGet, inMemoryLocks, waiters,
                   microtasks, lkey, local, updates, outlived>>

\* Redis: the 100 ms have passed, the one retry is sent
Retry(p, sync) ==
    /\ pc[p] = "retry"
    /\ attempts' = [attempts EXCEPT ![p] = @ + 1]
    /\ redis' = RedisSetNXPX(redis, lockKey(lkey[p]), lockValue(p))
    /\ IF Acquired(redis, lockKey(lkey[p]))
       THEN Proceed(p, sync)
       ELSE /\ pc' = [pc EXCEPT ![p] = "failed"]
            /\ found' = [found EXCEPT ![p] = RedisGet(redis, lockKey(lkey[p]))]
            /\ result' = [result EXCEPT ![p] = Raised("Could not acquire lock")]
            /\ sync = FALSE
            /\ UNCHANGED <<fnCalls, fnOutcome>>
    /\ UNCHANGED <<backend, appVars, lifeVars, recordVars, sqlite, lastWrite, lastGet, inMemoryLocks, waiters,
                   microtasks, lkey, local, updates, outlived>>

\* fn: await sessionStore.get(key)
FnGet(p) ==
    /\ pc[p] = "fnGet"
    /\ local' = [local EXCEPT ![p] = StoreGet("sessionStore", lkey[p]).val]
    /\ pc' = [pc EXCEPT ![p] = "fnSet"]
    /\ UNCHANGED <<backend, appVars, lifeVars, recordVars, storeVars, inMemoryLocks, waiters, microtasks, lkey,
                   attempts, found, fnCalls, fnOutcome, result, updates,
                   outlived>>

\* fn's promise settles: in-process, the rest of withLock becomes a microtask
Settle(p, outcome) ==
    /\ fnOutcome' = [fnOutcome EXCEPT ![p] = outcome]
    /\ pc' = [pc EXCEPT ![p] = "settled"]
    /\ local' = [local EXCEPT ![p] = JsUndefined]
    /\ microtasks' = IF backend = "sqlite" THEN Append(microtasks, p) ELSE microtasks

\* fn: await sessionStore.set(key, next version), then return it
FnSet(p) ==
    LET next == JsNum(Version(local[p]) + 1)
    IN  /\ pc[p] = "fnSet"
        /\ IF backend = "redis"
           THEN redis' = RedisStoreSet(redis, lkey[p], next) /\ UNCHANGED sqlite
           ELSE sqlite' = SqliteStoreSet(sqlite, "sessionStore", lkey[p], next)
                /\ UNCHANGED redis
        /\ updates' = [updates EXCEPT ![lkey[p]] = @ + 1]
        /\ expected' = Recorded(expected, "sessionStore", lkey[p],
                                [has |-> TRUE, val |-> next])
        /\ Settle(p, Returned(next))
        /\ UNCHANGED <<backend, appVars, lifeVars, lastEffect, lastWrite, lastGet, inMemoryLocks, waiters, lkey,
                       attempts, found, fnCalls, result, outlived>>

\* fn raises after its first await, before it has written
FnThrow(p) ==
    /\ InCS(p)
    /\ Settle(p, Raised("fnError"))
    /\ UNCHANGED <<backend, appVars, lifeVars, recordVars, storeVars, inMemoryLocks, waiters, lkey, attempts,
                   found, fnCalls, result, updates, outlived>>

\* in-process: the first continuation in the queue runs
RunMicrotask(p) ==
    /\ microtasks # <<>>
    /\ p = Head(microtasks)
    /\ IF pc[p] = "waiting"
       THEN \* back at the head of the while loop
            IF MustWait(inMemoryLocks, lkey[p], TRUE)
            THEN Await(p, lkey[p], Tail(microtasks))
            ELSE \E sync \in BOOLEAN : Enter(p, lkey[p], sync, Tail(microtasks))
       ELSE \* finally: inMemoryLocks.delete(key); releaseLock()
            /\ pc[p] = "settled"
            /\ inMemoryLocks' = [inMemoryLocks EXCEPT ![lkey[p]] = 0]
            /\ microtasks' = Tail(microtasks) \o waiters[p]
            /\ waiters' = [waiters EXCEPT ![p] = <<>>]
            /\ pc' = [pc EXCEPT ![p] = "done"]
            /\ result' = [result EXCEPT ![p] = Completion(fnOutcome[p])]
            /\ UNCHANGED <<fnCalls, fnOutcome>>
    /\ UNCHANGED <<backend, appVars, lifeVars, recordVars, storeVars, lkey, attempts, found, local,
                   updates, outlived>>

\* Redis, finally: const currentValue = await redisClient.get(lockKey)
ReleaseGet(p) ==
    /\ backend = "redis"
    /\ pc[p] = "settled"
    /\ IF OwnsLock(RedisGet(redis, lockKey(lkey[p])), p)
       THEN pc' = [pc EXCEPT ![p] = "relDel"] /\ UNCHANGED result
       ELSE /\ pc' = [pc EXCEPT ![p] = "done"]
            /\ result' = [result EXCEPT ![p] = Completion(fnOutcome[p])]
    /\ UNCHANGED <<backend, appVars, lifeVars, recordVars, storeVars, inMemoryLocks, waiters, microtasks, lkey,
                   attempts, found, local, fnCalls, fnOutcome, updates, outlived>>

\* Redis, finally: await redisClient.del(lockKey)
ReleaseDel(p) ==
    /\ pc[p] = "relDel"
    /\ redis' = RedisDel(redis, lockKey(lkey[p]))
    /\ pc' = [pc EXCEPT ![p] = "done"]
    /\ result' = [result EXCEPT ![p] = Completion(fnOutcome[p])]
    /\ UNCHANGED <<backend, appVars, lifeVars, recordVars, sqlite, lastWrite, lastGet, inMemoryLocks, waiters,
                   microtasks, lkey, attempts, found, local, fnCalls,
                   fnOutcome, updates, outlived>>

\* Redis: the PX time of a lock entry runs out
Expire(key) ==
    /\ redis[lockKey(key)].present
    /\ redis[lockKey(key)].ttl
    /\ redis' = RedisDel(redis, lockKey(key))
    /\ outlived' = IF \E p \in Callers :
                         Holding(p) /\ OwnsLock(redis[lockKey(key)], p)
                   THEN outlived \cup {key} ELSE outlived
    /\ UNCHANGED <<backend, appVars, lifeVars, recordVars, sqlite, lastWrite, lastGet, inMemoryLocks, waiters,
                   microtasks, pc, lkey, attempts, found, local, fnCalls,
                   fnOutcome, result, updates>>

NextLock ==
    \/ \E p \in Callers, k \in Keys, sync \in BOOLEAN : Call(p, k, sync)
    \/ \E p \in Callers, sync \in BOOLEAN : Retry(p, sync)
    \/ \E p \in Callers : FnGet(p)
    \/ \E p \in Callers : FnSet(p)
    \/ \E p \in Callers : FnThrow(p)
    \/ \E p \in Callers : RunMicrotask(p)
    \/ \E p \in Callers : ReleaseGet(p)
    \/ \E p \in Callers : ReleaseDel(p)
    \/ \E k \in Keys : Expire(k)

SpecLock == Init /\ [][NextLock]_vars

(***************************************************************************)
(* Store operations as the OAuth client calls them                         *)
(***************************************************************************)
Set(store, key, val) ==
    /\ IF backend = "redis"
       THEN redis' = RedisStoreSet(redis, key, val) /\ UNCHANGED sqlite
       ELSE sqlite' = SqliteStoreSet(sqlite, store, key, val) /\ UNCHANGED redis
    /\ lastWrite' = [lastWrite EXCEPT ![key] = [op |-> "set", store |-> store, val |-> val]]
    /\ lastGet' = NoGet
    /\ expected' = Recorded(expected, store, key, [has |-> TRUE, val |-> val])
    /\ lastEffect' = SetEffect(expected[store][key], val)
    /\ UNCHANGED <<backend, appVars, lifeVars, lockVars>>

Get(store, key) ==
    /\ lastGet' = [store |-> store, key |-> key, out |-> StoreGet(store, key)]
    /\ UNCHANGED <<backend, appVars, lifeVars, recordVars, redis, sqlite, lastWrite, lockVars>>

Del(store, key) ==
    /\ IF backend = "redis"
       THEN redis' = RedisStoreDel(redis, key) /\ UNCHANGED sqlite
       ELSE sqlite' = SqliteStoreDel(sqlite, store, key) /\ UNCHANGED redis
    /\ lastWrite' = [lastWrite EXCEPT ![key] = [op |-> "del", store |-> store, val |-> JsUndefined]]
    /\ lastGet' = NoGet
    /\ expected' = Recorded(expected, store, key, NoRecord)
    /\ lastEffect' = DelEffect(expected[store][key])
    /\ UNCHANGED <<backend, appVars, lifeVars, lockVars>>

NextStore ==
    \/ \E s \in StoreNames, k \in Keys, v \in Values : Set(s, k, v)
    \/ \E s \in StoreNames, k \in Keys : Get(s, k)
    \/ \E s \in StoreNames, k \in Keys : Del(s, k)

SpecStore == Init /\ [][NextStore]_vars

(***************************************************************************)
(* C10: a get(k) that follows set(k, v) through the same store, with no    *)
(* set or del of k in between, completes without raising and yields a      *)
(* value deeply equal to v, on both backends and for both stores.          *)
(***************************************************************************)
RoundTrip ==
    (/\ lastGet.store # ""
     /\ lastWrite[lastGet.key].op = "set"
     /\ lastWrite[lastGet.key].store = lastGet.store)
    => (/\ ~lastGet.out.threw
        /\ DeepEqual(lastGet.out.val, lastWrite[lastGet.key].val))

\* a nested object has made the round trip, an array next to it
RoundTripWitness ==
    /\ lastGet.store = "sessionStore"
    /\ lastWrite[lastGet.key].op = "set"
    /\ lastWrite[lastGet.key].store = "sessionStore"
    /\ lastGet.out.val.t = "obj"
    /\ \E k \in Keys \ {lastGet.key} :
          lastWrite[k].op = "set" /\ lastWrite[k].val.t = "arr"


\* the Redis server expires a PX entry once its time has passed
SpecLockFair == SpecLock /\ \A k \in Keys : WF_vars(Expire(k))

(***************************************************************************)
(* Properties of the request lock                                          *)
(***************************************************************************)
SameKey(p, q) == p # q /\ lkey[p] # "" /\ lkey[p] = lkey[q]

Range(f) == {f[i] : i \in DOMAIN f}

\* the Session Record version get(key) reports now
StoredVersion(key) == Version(StoreGet("sessionStore", key).val)

(***************************************************************************)
(* C1: in-process lock: two critical sections for one key never run at the *)
(* same time, and while one runs the Map entry of the key is its own, so   *)
(* that a caller arriving meanwhile waits until it has finished.           *)
(***************************************************************************)
MemMutualExclusion ==
    backend = "sqlite" =>
        /\ \A p, q \in Callers : SameKey(p, q) => ~(InCS(p) /\ InCS(q))
        /\ \A p \in Callers : InCS(p) => inMemoryLocks[lkey[p]] = p

\* one call has completed, the next runs, a third still waits, all on one key
MemMutualExclusionWitness ==
    /\ backend = "sqlite"
    /\ \E p, q, r \in Callers :
          /\ SameKey(p, q) /\ SameKey(q, r) /\ SameKey(p, r)
          /\ pc[r] = "done" /\ InCS(p) /\ pc[q] = "waiting"

ReleaseOwnerChecked ==
    [][\A p \in Callers :
          (/\ pc[p] \in {"settled", "relDel"}
           /\ pc'[p] = "done"
           /\ redis[lockKey(lkey[p])].present
           /\ ~OwnsLock(redis[lockKey(lkey[p])], p))
          => redis'[lockKey(lkey[p])] = redis[lockKey(lkey[p])]]_vars

(***************************************************************************)
(* C4: Redis lock: a call sends at most two SET NX PX commands; a call     *)
(* refused twice has raised "Could not acquire lock" without invoking fn,  *)
(* and no call completes without having invoked fn in any other way.       *)
(***************************************************************************)
RetryOnce ==
    backend = "redis" =>
        \A p \in Callers :
            /\ attempts[p] <= 2
            /\ pc[p] = "retry" => (attempts[p] = 1 /\ fnCalls[p] = 0)
            /\ pc[p] = "failed" =>
                  /\ attempts[p] = 2
                  /\ found[p].present
                  /\ fnCalls[p] = 0
                  /\ result[p] = Raised("Could not acquire lock")
            /\ (pc[p] \in {"done", "failed"} /\ fnCalls[p] = 0) =>
                  (attempts[p] = 2 /\ result[p] = Raised("Could not acquire lock"))

\* a call was refused twice while the holder was still in its critical section
RetryOnceWitness ==
    /\ backend = "redis"
    /\ \E p, q \in Callers :
          /\ SameKey(p, q) /\ InCS(p) /\ attempts[p] = 1
          /\ pc[q] = "failed" /\ found[q].val = lockValue(p)

(***************************************************************************)
(* C5: once a call that acquired the lock has completed, with a value or   *)
(* with an error, the entry it installed is gone; and when no call for a   *)
(* key is under way there is no entry for the key, so that the next call   *)
(* acquires at its first attempt.  Both implementations.                   *)
(***************************************************************************)
LockEntryGone ==
    /\ \A p \in Callers :
          pc[p] = "done" =>
              /\ inMemoryLocks[lkey[p]] # p
              /\ waiters[p] = <<>>
              /\ redis[lockKey(lkey[p])].val # lockValue(p)
    /\ \A k \in Keys :
          (\A p \in Callers : lkey[p] = k => pc[p] \in {"done", "failed"})
          => (inMemoryLocks[k] = 0 /\ ~redis[lockKey(k)].present)

\* after a call whose fn raised, the next call acquired at its first attempt
LockEntryGoneWitness ==
    /\ backend = "redis"
    /\ outlived = {}
    /\ \E p, q \in Callers :
          /\ SameKey(p, q)
          /\ pc[p] = "done" /\ result[p].threw
          /\ pc[q] = "done" /\ ~result[q].threw /\ attempts[q] = 1

CrashedHolderExpires ==
    /\ \A k \in Keys :
          redis[lockKey(k)].present ~> ~redis[lockKey(k)].present
    /\ [][\A q \in Callers, k \in Keys :
            (pc[q] = "idle" /\ pc'[q] # "idle" /\ lkey'[q] = k
             /\ backend = "redis" /\ ~redis[lockKey(k)].present)
            => (fnCalls'[q] = 1 /\ OwnsLock(redis'[lockKey(k)], q))]_vars

\* a call got the lock at its first attempt while the call that held the
\* expired entry had still not released it
CrashedHolderExpiresWitness ==
    /\ backend = "redis"
    /\ \E p, q \in Callers :
          /\ SameKey(p, q) /\ InCS(p) /\ lkey[p] \in outlived
          /\ InCS(q) /\ attempts[q] = 1 /\ OwnsLock(redis[lockKey(lkey[q])], q)

(***************************************************************************)
(* C8: a call waits, retries or fails only because of a lock entry set by  *)
(* a call for the same key; calls for different keys run their critical    *)
(* sections side by side.  Both implementations.                           *)
(***************************************************************************)
KeysIndependent ==
    \A q \in Callers :
        /\ pc[q] = "waiting" =>
              \/ q \in Range(microtasks)
              \/ \E p \in Callers : SameKey(p, q) /\ q \in Range(waiters[p])
        /\ \A p \in Callers : q \in Range(waiters[p]) => SameKey(p, q)
        /\ pc[q] \in {"retry", "failed"} =>
              \E p \in Callers : SameKey(p, q) /\ found[q].val = lockValue(p)

\* critical sections for two keys run together while a third call waits
KeysIndependentWitness ==
    \E p, q, r \in Callers :
        /\ InCS(p) /\ InCS(q) /\ lkey[p] # lkey[q]
        /\ pc[r] = "waiting" /\ SameKey(p, r)

(***************************************************************************)
(* C9: a call that acquired the lock has invoked fn exactly once and       *)
(* completes with what fn returned or raised; a call that has not acquired *)
(* the lock has not invoked fn.  Both implementations.                     *)
(***************************************************************************)
WithLockOutcome ==
    \A p \in Callers :
        /\ fnCalls[p] <= 1
        /\ pc[p] = "done" =>
              (fnCalls[p] = 1 /\ fnOutcome[p] # NoOutcome /\ result[p] = fnOutcome[p])
        /\ pc[p] \in {"idle", "waiting", "retry", "failed"} => fnCalls[p] = 0
        /\ Holding(p) => fnCalls[p] = 1

\* one call completed with the value fn returned, another with fn's error
WithLockOutcomeWitness ==
    \E p, q \in Callers :
        /\ pc[p] = "done" /\ result[p] = Returned(JsNum(1))
        /\ pc[q] = "done" /\ result[q] = Raised("fnError")


(***************************************************************************)
(* The store contract beyond the round trip, under SpecStore.  A record is *)
(* what a store's key names in the backend: in Redis the key itself, in    *)
(* SQLite the row of the store's table; expected follows the set and del   *)
(* calls record by record.                                                 *)
(***************************************************************************)
\* get() completed with undefined
NotFound(out) == ~out.threw /\ out.val = JsUndefined

\* every set/del so far was made on key
OnlyKeyWritten(key) == \A k \in Keys \ {key} : lastWrite[k].op = "none"

(***************************************************************************)
(* C11: get(k) completes with undefined, without raising, exactly when the *)
(* record under k was never set or its last operation was a del, on both   *)
(* backends.                                                               *)
(***************************************************************************)
NotFoundExactly ==
    lastGet.store # ""
    => (NotFound(lastGet.out) <=> ~expected[lastGet.store][lastGet.key].has)

\* Redis: a key that was set and then deleted reads as undefined
NotFoundExactlyWitness ==
    /\ backend = "redis"
    /\ lastGet.store = "stateStore"
    /\ lastWrite[lastGet.key].op = "del"
    /\ lastEffect = "fresh"
    /\ NotFound(lastGet.out)

(***************************************************************************)
(* C12: a get(k) after set(k, v1) and then set(k, v2) yields v2: a get     *)
(* returns the value of the most recent set of the record.                 *)
(***************************************************************************)
LatestSetWins ==
    (lastGet.store # "" /\ expected[lastGet.store][lastGet.key].has)
    => (/\ ~lastGet.out.threw
        /\ DeepEqual(lastGet.out.val, expected[lastGet.store][lastGet.key].val))

\* SQLite: the only key written was set over a different value, then read
LatestSetWinsWitness ==
    /\ backend = "sqlite"
    /\ lastGet.store # ""
    /\ OnlyKeyWritten(lastGet.key)
    /\ lastEffect = "replaced"
    /\ lastWrite[lastGet.key].store = lastGet.store
    /\ lastGet.out.val = lastWrite[lastGet.key].val

(***************************************************************************)
(* C13: a set(k, v) on a record that already holds v, and a del(k) on a    *)
(* record that is absent (deleted before, or never set), leave both        *)
(* backends exactly as they were.                                          *)
(***************************************************************************)
SetDelIdempotent ==
    [][lastEffect' = "same" => UNCHANGED <<redis, sqlite>>]_vars

\* the same nested object was set twice under the only key written
SetDelIdempotentWitness ==
    /\ lastEffect = "same"
    /\ \E k \in Keys :
          /\ OnlyKeyWritten(k)
          /\ lastWrite[k].op = "set"
          /\ lastWrite[k].val.t = "obj"

(***************************************************************************)
(* C14: within one store, set(k1, v) and del(k1) leave the result of       *)
(* get(k2) unchanged for every key k2 other than k1.                       *)
(***************************************************************************)
\* what the backend holds under a store's key
Record(store, key) ==
    IF backend = "redis" THEN RedisGet(redis, key)
    ELSE SqliteSelect(sqlite, tableName(store), key)

\* store.get(key) in the state a step leads to
GetAfter(store, key) ==
    IF backend = "redis" THEN RedisStoreGet(redis', key)
    ELSE SqliteStoreGet(sqlite', store, key)

\* get(key) reads nothing but the record under key, so an unchanged record
\* settles the comparison without parsing it twice
SameGet(store, key) ==
    \/ Record(store, key)' = Record(store, key)
    \/ GetAfter(store, key) = StoreGet(store, key)

FrameOtherKeys ==
    [][\A s \in StoreNames, k1 \in Keys :
          (/\ lastGet' = NoGet
           /\ \/ Del(s, k1)
              \/ /\ lastWrite'[k1].op = "set"
                 /\ lastWrite'[k1].store = s
                 /\ Set(s, k1, lastWrite'[k1].val))
          => \A k2 \in Keys \ {k1} : SameGet(s, k2)]_vars

\* a del removed one record of a store whose other key still reads its array
FrameOtherKeysWitness ==
    /\ lastEffect = "fresh"
    /\ \E s \in StoreNames, k1 \in Keys, k2 \in Keys :
          /\ lastWrite[k1].op = "del" /\ lastWrite[k1].store = s
          /\ lastWrite[k2].op = "set" /\ lastWrite[k2].store = s
          /\ lastWrite[k2].val.t = "arr"
          /\ StoreGet(s, k2).val = lastWrite[k2].val


(***************************************************************************)
(* The lifecycle manager: initialize(), close(), healthCheck() and the     *)
(* accessors of db.js, and main() of the server.                           *)
(*                                                                         *)
(* A lifecycle call runs to its first await in one step and resumes in a   *)
(* later one; calls may overlap.  lpc of a call:                           *)
(*   idle        not running                                               *)
(*   connecting  initialize() awaiting redisClient.connect()               *)
(*   quitting    close() awaiting redisClient.quit()                       *)
(*   pinging     healthCheck() awaiting redisClient.ping()                 *)
(* A connection object is "none" before it is created, then "connecting",  *)
(* "open", "failed" or "closed".  What the Redis and SQLite libraries      *)
(* answer is not in db.js: every answer they can give is a choice.         *)
(***************************************************************************)
dataVars == <<backend, storeVars, lockVars, recordVars, appVars>>

AccessorNames == {"stateStore", "sessionStore", "requestLock"}

\* the connection object createClient() or new Database() makes next
NewConn == CHOOSE i \in Conns : conns[i] = "none" /\ \A j \in 1..(i - 1) : conns[j] # "none"

CanConnect == \E i \in Conns : conns[i] = "none"

\* the backend of the process: the one process.env.REDIS_URL named when an
\* initialize() call first went past its guard
Selected(initializing) ==
    IF startBackend = "none" /\ initializing THEN backend ELSE startBackend

\* the call completes: its promise settles with rec
Done(c, rec) ==
    /\ lastDone' = rec
    /\ lpc' = [lpc EXCEPT ![c] = "idle"]
    /\ lconn' = [lconn EXCEPT ![c] = 0]
    /\ mainInit' = IF c # 0 THEN mainInit
                   ELSE IF rec.threw THEN "raised" ELSE "ok"
    /\ startBackend' = Selected(rec.op = "initialize")

\* the call awaits a promise of connection id
Suspend(c, at, id) ==
    /\ lpc' = [lpc EXCEPT ![c] = at]
    /\ lconn' = [lconn EXCEPT ![c] = id]
    /\ startBackend' = Selected(at = "connecting")
    /\ UNCHANGED <<lastDone, mainInit>>

\* initialize() without its guard
AlreadyInitializedNever == FALSE

\* if (isInitialized) return;
AlreadyInitialized == isInitialized

\* the SQLite branch of initialize(): new Database, exec, the three creates
OpenSqlite(c, o) ==
    \/ /\ o = "openFails"
       /\ Done(c, Failed("initialize", "SqliteError"))
       /\ UNCHANGED <<managerVars, conns>>
    \/ /\ o = "execFails"
       /\ CanConnect
       /\ sqliteDb' = ObjRef(NewConn)
       /\ conns' = [conns EXCEPT ![NewConn] = "open"]
       /\ Done(c, Failed("initialize", "SqliteError"))
       /\ UNCHANGED <<isInitialized, stateStore, sessionStore, requestLock,
                      redisClient>>
    \/ /\ o = "ok"
       /\ CanConnect
       /\ sqliteDb' = ObjRef(NewConn)
       /\ conns' = [conns EXCEPT ![NewConn] = "open"]
       /\ stateStore' = createStore(NullRef, ObjRef(NewConn), "auth_state")
       /\ sessionStore' = createStore(NullRef, ObjRef(NewConn), "auth_session")
       /\ requestLock' = createRequestLock(NullRef)
       /\ isInitialized' = TRUE
       /\ Done(c, Completed("initialize", "undefined"))
       /\ UNCHANGED redisClient

\* initialize() up to its first await
InitializeCall(c) ==
    /\ lpc[c] = "idle"
    /\ \/ /\ AlreadyInitialized
          /\ Done(c, Completed("initialize", "undefined"))
          /\ UNCHANGED <<managerVars, conns>>
       \/ /\ ~AlreadyInitialized
          /\ backend = "redis"
          /\ CanConnect
          /\ redisClient' = ObjRef(NewConn)
          /\ conns' = [conns EXCEPT ![NewConn] = "connecting"]
          /\ Suspend(c, "connecting", NewConn)
          /\ UNCHANGED <<isInitialized, stateStore, sessionStore, requestLock,
                         sqliteDb>>
       \/ /\ ~AlreadyInitialized
          /\ backend = "sqlite"
          /\ \E o \in {"ok", "openFails", "execFails"} : OpenSqlite(c, o)

Initialize(c) ==
    /\ InitializeCall(c)
    /\ UNCHANGED <<dataVars, mainModule, mainPc, oauthClient>>

\* connect() resolved: the rest of the try block, then isInitialized = true;
\* redisClient is read again, as the module variable stands now
ConnectResolved(c) ==
    /\ lpc[c] = "connecting"
    /\ conns[lconn[c]] = "connecting"
    /\ conns' = [conns EXCEPT ![lconn[c]] = "open"]
    /\ stateStore' = createStore(redisClient, NullRef, "")
    /\ sessionStore' = createStore(redisClient, NullRef, "")
    /\ requestLock' = createRequestLock(redisClient)
    /\ isInitialized' = TRUE
    /\ Done(c, Completed("initialize", "undefined"))
    /\ UNCHANGED <<redisClient, sqliteDb>>
    /\ UNCHANGED <<dataVars, mainModule, mainPc, oauthClient>>

\* a catch block that logs and does not rethrow
ConnectRejectedSwallowed(c) ==
    /\ lpc[c] = "connecting"
    /\ conns' = [conns EXCEPT ![lconn[c]] = IF @ = "connecting" THEN "failed" ELSE @]
    /\ isInitialized' = TRUE
    /\ Done(c, Completed("initialize", "undefined"))
    /\ UNCHANGED <<stateStore, sessionStore, requestLock, redisClient, sqliteDb>>
    /\ UNCHANGED <<dataVars, mainModule, mainPc, oauthClient>>

\* connect() rejected: the catch block rethrows
ConnectRejected(c) ==
    /\ lpc[c] = "connecting"
    /\ conns' = [conns EXCEPT ![lconn[c]] = IF @ = "connecting" THEN "failed" ELSE @]
    /\ Done(c, Failed("initialize", "Redis connection failed"))
    /\ UNCHANGED managerVars
    /\ UNCHANGED <<dataVars, mainModule, mainPc, oauthClient>>

\* close() whose teardown error escapes
CloseDoneRethrows(failed) ==
    IF failed THEN Failed("close", "teardown") ELSE Completed("close", "undefined")

\* both teardown calls sit in try/catch: close() completes either way
CloseDone(failed) == Completed("close", "undefined")

\* close() from if (sqliteDb) on: quitFailed tells how the quit before went,
\* open are the connections as it left them, o is what sqliteDb.close() does
CloseRest(c, open, quitFailed, o) ==
    /\ IF Truthy(sqliteDb)
       THEN conns' = IF o = "ok" THEN [open EXCEPT ![sqliteDb.id] = "closed"] ELSE open
       ELSE o = "ok" /\ conns' = open
    /\ isInitialized' = FALSE
    /\ stateStore' = NullInstance
    /\ sessionStore' = NullInstance
    /\ requestLock' = NullInstance
    /\ redisClient' = NullRef
    /\ sqliteDb' = NullRef
    /\ Done(c, CloseDone(quitFailed \/ o = "fails"))

\* close() up to its first await
CloseCall(c) ==
    /\ lpc[c] = "idle"
    /\ \/ /\ ~isInitialized
          /\ Done(c, Completed("close", "undefined"))
          /\ UNCHANGED <<managerVars, conns>>
       \/ /\ isInitialized
          /\ Truthy(redisClient)
          /\ Suspend(c, "quitting", redisClient.id)
          /\ UNCHANGED <<managerVars, conns>>
       \/ /\ isInitialized
          /\ ~Truthy(redisClient)
          /\ \E o \in {"ok", "fails"} : CloseRest(c, conns, FALSE, o)

Close(c) ==
    /\ CloseCall(c)
    /\ UNCHANGED <<dataVars, mainModule, mainPc, oauthClient>>

\* quit() settled: q tells how
QuitDone(c, q, o) ==
    /\ lpc[c] = "quitting"
    /\ q = "ok" => conns[lconn[c]] \in {"open", "connecting"}
    /\ CloseRest(c, IF q = "ok" THEN [conns EXCEPT ![lconn[c]] = "closed"] ELSE conns,
                 q = "fails", o)
    /\ UNCHANGED <<dataVars, mainModule, mainPc, oauthClient>>

\* healthCheck() without its try/catch
HealthAnswerUncaught(probe) ==
    IF probe = "fails" THEN [Failed("healthCheck", "probe failed") EXCEPT !.probe = probe]
    ELSE [Completed("healthCheck", IF probe = "ok" THEN "true" ELSE "false")
             EXCEPT !.probe = probe]

\* healthCheck(): true after a probe that succeeded, false otherwise
HealthAnswer(probe) ==
    [Completed("healthCheck", IF probe = "ok" THEN "true" ELSE "false")
        EXCEPT !.probe = probe]

\* what healthCheck() does when called now
HealthNow ==
    IF ~isInitialized THEN "false"
    ELSE IF Truthy(redisClient) THEN "ping"
    ELSE IF Truthy(sqliteDb) THEN "query"
    ELSE "false"

\* healthCheck() up to its first await
HealthCall(c) ==
    /\ lpc[c] = "idle"
    /\ \/ /\ HealthNow = "false"
          /\ Done(c, HealthAnswer("none"))
       \/ /\ HealthNow = "ping"
          /\ Suspend(c, "pinging", redisClient.id)
       \/ /\ HealthNow = "query"
          /\ \E o \in {"ok", "fails"} :
                /\ o = "ok" => conns[sqliteDb.id] = "open"
                /\ Done(c, HealthAnswer(o))
    /\ UNCHANGED <<managerVars, conns>>

HealthCheck(c) ==
    /\ HealthCall(c)
    /\ UNCHANGED <<dataVars, mainModule, mainPc, oauthClient>>

\* ping() settled
PingDone(c, o) ==
    /\ lpc[c] = "pinging"
    /\ o = "ok" => conns[lconn[c]] = "open"
    /\ Done(c, HealthAnswer(o))
    /\ UNCHANGED <<managerVars, conns>>
    /\ UNCHANGED <<dataVars, mainModule, mainPc, oauthClient>>

ModuleVar(name) ==
    CASE name = "stateStore" -> stateStore
      [] name = "sessionStore" -> sessionStore
      [] OTHER -> requestLock

\* typeof of what a module variable holds
JsType(inst) == IF inst.impl \in {"undefined", "null"} THEN inst.impl ELSE "object"

\* get stateStore(), get sessionStore(), get requestLock(): what the read
\* completes with, and the instance it yields
Accessor(name) ==
    IF ~isInitialized
    THEN [out |-> Failed("read", "Database not initialized. Call initialize() first."),
          inst |-> NoInstance]
    ELSE [out |-> Completed("read", JsType(ModuleVar(name))),
          inst |-> ModuleVar(name)]

\* an instance whose calls reach an open connection
Usable(inst) ==
    \/ inst.impl = "memory"
    \/ /\ inst.impl \in {"redis", "sqlite"}
       /\ inst.conn # 0
       /\ conns[inst.conn] = "open"

\* the keys and the value of the records the lifecycle runs write
LifeKey == "did:a"

StateKey == "did:b"

LifeValue == JsNum(0)

\* store.set(key, val) on an instance: its connection has to be open
InstanceSet(inst, key, val) ==
    IF ~Usable(inst)
    THEN lastDone' = Failed("set", "connection not open") /\ UNCHANGED <<redis, sqlite>>
    ELSE /\ lastDone' = Completed("set", "undefined")
         /\ IF inst.impl = "redis"
            THEN redis' = RedisStoreSet(redis, key, val) /\ UNCHANGED sqlite
            ELSE /\ sqlite' = SqliteInsertOrReplace(sqlite, inst.table, key,
                                                    JSONstringify(val))
                 /\ UNCHANGED redis

\* store.get(key) on an instance
InstanceGet(inst, key) ==
    IF ~Usable(inst) THEN Raised("connection not open")
    ELSE IF inst.impl = "redis" THEN RedisStoreGet(redis, key)
    ELSE LET row == SqliteSelect(sqlite, inst.table, key)
         IN  IF ~row.present THEN Returned(JsUndefined) ELSE JSONparse(row.value)

\* await db.sessionStore.set(key, val)
Put ==
    /\ IF Accessor("sessionStore").out.threw
       THEN lastDone' = Accessor("sessionStore").out /\ UNCHANGED <<redis, sqlite>>
       ELSE InstanceSet(Accessor("sessionStore").inst, LifeKey, LifeValue)
    /\ UNCHANGED <<backend, appVars, lastWrite, lastGet, lockVars, recordVars, managerVars,
                   conns, lpc, lconn, mainVars, startBackend>>

\* the OAuth client stores a State Record: stateStore.set(key, val) on the
\* instance it was constructed with
ClientSet ==
    /\ InstanceSet(oauthClient.stateStore, StateKey, LifeValue)
    /\ UNCHANGED <<backend, appVars, lastWrite, lastGet, lockVars, recordVars, managerVars,
                   conns, lpc, lconn, mainVars, startBackend>>

\* main(): await db.initialize()
MainStart ==
    /\ mainPc = "start"
    /\ InitializeCall(0)
    /\ mainPc' = "initializing"
    /\ UNCHANGED <<dataVars, mainModule, oauthClient>>

\* a main() that catches the error of initialize() and goes on
InitFailedCaught(outcome) == FALSE

\* the rejection of db.initialize() leaves main(): main().catch(console.error)
InitFailed(outcome) == outcome = "raised"

\* what main() hands to the OAuth client: db.stateStore and db.sessionStore;
\* no requestLock is passed (part_002 calls createOAuthClient with four
\* arguments, server.js names no requestLock option), so it is undefined
StoresRead == [stateStore |-> Accessor("stateStore").inst,
               sessionStore |-> Accessor("sessionStore").inst,
               requestLock |-> NoInstance]

\* main() resumes after db.initialize(): part_002 reads the accessors as the
\* arguments of createOAuthClient, server.js goes to JoseKey.fromJWK first
MainResume ==
    /\ mainPc = "initializing"
    /\ mainInit # "pending"
    /\ IF InitFailed(mainInit)
       THEN mainPc' = "failed" /\ UNCHANGED oauthClient
       ELSE IF mainModule = "server.js"
       THEN mainPc' = "importKey" /\ UNCHANGED oauthClient
       ELSE IF Accessor("stateStore").out.threw
       THEN mainPc' = "failed" /\ UNCHANGED oauthClient
       ELSE mainPc' = "importKey" /\ oauthClient' = StoresRead
    /\ UNCHANGED <<dataVars, managerVars, conns, lpc, lconn, lastDone, mainModule,
                   mainInit, startBackend>>

\* JoseKey.fromJWK settled; then new NodeOAuthClient, the routes, app.listen
MainKeyDone(o) ==
    /\ mainPc = "importKey"
    /\ IF o = "fails"
       THEN mainPc' = "failed" /\ UNCHANGED oauthClient
       ELSE IF mainModule # "server.js"
       THEN mainPc' = "listening" /\ UNCHANGED oauthClient
       ELSE IF Accessor("stateStore").out.threw
       THEN mainPc' = "failed" /\ UNCHANGED oauthClient
       ELSE mainPc' = "listening" /\ oauthClient' = StoresRead
    /\ UNCHANGED <<dataVars, managerVars, conns, lpc, lconn, lastDone, mainModule,
                   mainInit, startBackend>>

\* the module as loaded: nothing assigned, main() not yet called
InitLife ==
    /\ backend \in Backends
    /\ NothingStored
    /\ isInitialized = FALSE
    /\ stateStore = NoInstance
    /\ sessionStore = NoInstance
    /\ requestLock = NoInstance
    /\ redisClient = NoRef
    /\ sqliteDb = NoRef
    /\ conns = [i \in Conns |-> "none"]
    /\ lpc = [c \in LifeCalls |-> "idle"]
    /\ lconn = [c \in LifeCalls |-> 0]
    /\ lastDone = NoDone
    /\ mainModule \in {"server.js", "part_002"}
    /\ mainPc = "start"
    /\ mainInit = "pending"
    /\ oauthClient = NoClient
    /\ startBackend = "none"

\* db.js under any caller (a test file, a script, a server), REDIS_URL as it was
\* when the process started
NextLife ==
    \/ \E c \in 1..NCalls : Initialize(c)
    \/ \E c \in 1..NCalls : ConnectResolved(c)
    \/ \E c \in 1..NCalls : ConnectRejected(c)
    \/ \E c \in 1..NCalls : Close(c)
    \/ \E c \in 1..NCalls, q \in {"ok", "fails"}, o \in {"ok", "fails"} : QuitDone(c, q, o)
    \/ \E c \in 1..NCalls : HealthCheck(c)
    \/ \E c \in 1..NCalls, o \in {"ok", "fails"} : PingDone(c, o)
    \/ Put

SpecLife == InitLife /\ [][NextLife]_vars

\* the server process: main() is the only caller of initialize(), nothing
\* calls close(), and requests (the health route, the stores) come in through
\* the listener
NextMain ==
    \/ MainStart
    \/ ConnectResolved(0)
    \/ ConnectRejected(0)
    \/ MainResume
    \/ \E o \in {"ok", "fails"} : MainKeyDone(o)
    \/ mainPc = "listening" /\ \E c \in 1..NCalls : HealthCheck(c)
    \/ mainPc = "listening" /\ \E c \in 1..NCalls, o \in {"ok", "fails"} : PingDone(c, o)
    \/ mainPc = "listening" /\ Put
    \/ mainPc = "listening" /\ ClientSet

SpecMain == InitLife /\ [][NextMain]_vars

\* process.env.REDIS_URL is set or deleted while the process runs
SetEnv(b) ==
    /\ backend # b
    /\ backend' = b
    /\ UNCHANGED <<storeVars, lockVars, recordVars, lifeVars, appVars>>

\* db.js under one caller that awaits each call before the next, and a
\* configuration variable that may change between the calls
NextEnv ==
    \/ \E b \in Backends : SetEnv(b)
    \/ Initialize(1)
    \/ ConnectResolved(1)
    \/ ConnectRejected(1)
    \/ Close(1)
    \/ \E q \in {"ok", "fails"}, o \in {"ok", "fails"} : QuitDone(1, q, o)
    \/ HealthCheck(1)
    \/ \E o \in {"ok", "fails"} : PingDone(1, o)
    \/ Put

SpecEnv == InitLife /\ [][NextEnv]_vars


\* the connection objects created so far
Created == {i \in Conns : conns[i] # "none"}

NotInitializedError ==
    Failed("read", "Database not initialized. Call initialize() first.")

(***************************************************************************)
(* C15: in every state in which the manager is not INITIALIZED, reading    *)
(* stateStore, sessionStore or requestLock raises 'Database not            *)
(* initialized'; in the INITIALIZED state each of them yields an instance  *)
(* that can be used, one whose calls reach an open connection.             *)
(***************************************************************************)
AccessorGuard ==
    \A n \in AccessorNames :
        /\ ~isInitialized => Accessor(n).out = NotInitializedError
        /\ isInitialized => ~Accessor(n).out.threw /\ Usable(Accessor(n).inst)

(***************************************************************************)
(* C16: an initialize() call made while the manager is INITIALIZED         *)
(* completes at once without raising and changes nothing: no connection    *)
(* object is created, the store and lock instances and the two client      *)
(* variables stay as they are, and so does every stored record.            *)
(***************************************************************************)
InitializeIdempotent ==
    [][\A c \in LifeCalls :
          (isInitialized /\ InitializeCall(c))
          => /\ UNCHANGED <<managerVars, conns, redis, sqlite>>
             /\ lastDone' = Completed("initialize", "undefined")
             /\ lpc'[c] = "idle"]_vars

\* the one connection ever created is open, a record was written through it,
\* a later initialize() has completed and the record still reads back
InitializeIdempotentWitness ==
    /\ isInitialized
    /\ lastDone = Completed("initialize", "undefined")
    /\ Cardinality(Created) = 1
    /\ InstanceGet(sessionStore, LifeKey) = Returned(LifeValue)

(***************************************************************************)
(* C17: isInitialized turns true only as an initialize() call completes    *)
(* without raising and turns false only as a close() call completes; a     *)
(* close() on a manager that is not initialized (never initialized, or     *)
(* closed before) changes nothing; close() never raises, whatever the      *)
(* teardown calls do; and once an initialize() has succeeded after a       *)
(* close(), the accessors no longer raise.                                 *)
(***************************************************************************)
LifecycleMachine ==
    [][/\ (~isInitialized /\ isInitialized')
          => lastDone' = Completed("initialize", "undefined")
       /\ (isInitialized /\ ~isInitialized') => lastDone' = Completed("close", "undefined")
       /\ \A c \in LifeCalls :
             (~isInitialized /\ CloseCall(c))
             => /\ UNCHANGED <<managerVars, conns, redis, sqlite>>
                /\ lastDone' = Completed("close", "undefined")
       /\ lastDone'.op = "close" => ~lastDone'.threw
       /\ isInitialized' => \A n \in AccessorNames : ~Accessor(n)'.out.threw]_vars

\* initialized again after a close() whose teardown closed a connection
LifecycleMachineWitness ==
    /\ isInitialized
    /\ lastDone = Completed("initialize", "undefined")
    /\ \E i \in Conns : conns[i] = "closed"
    /\ \A n \in AccessorNames : Usable(Accessor(n).inst)

(***************************************************************************)
(* C18: healthCheck() always completes with true or false and never        *)
(* raises; it answers true exactly when it made a probe and the probe      *)
(* succeeded, so a failing probe gives false; called on a manager that is  *)
(* not initialized (before initialize(), after close()) it answers false   *)
(* at once.                                                                *)
(***************************************************************************)
HealthBoolean ==
    [][/\ lastDone'.op = "healthCheck"
          => /\ ~lastDone'.threw
             /\ lastDone'.val \in {"true", "false"}
             /\ lastDone'.val = "true" <=> lastDone'.probe = "ok"
       /\ \A c \in LifeCalls :
             (~isInitialized /\ HealthCall(c))
             => lastDone' = HealthAnswer("none") /\ lastDone'.val = "false"]_vars

\* Redis: after a successful initialize() the ping succeeded
HealthBooleanWitness ==
    /\ isInitialized
    /\ Truthy(redisClient)
    /\ conns[redisClient.id] = "open"
    /\ lastDone.op = "healthCheck"
    /\ lastDone.val = "true"

(***************************************************************************)
(* C19: when redisClient.connect() fails, initialize() raises 'Redis       *)
(* connection failed' to its caller and does not set isInitialized: a      *)
(* manager that was not initialized stays so, its accessors raise and      *)
(* healthCheck() answers false.                                            *)
(***************************************************************************)
RedisUnreachable ==
    [][\A c \in LifeCalls :
          ConnectRejected(c)
          => /\ lastDone' = Failed("initialize", "Redis connection failed")
             /\ isInitialized' = isInitialized
             /\ ~isInitialized
                => /\ \A n \in AccessorNames : Accessor(n)'.out = NotInitializedError
                   /\ HealthNow' = "false"]_vars

\* the only connection attempt of the run has failed
RedisUnreachableWitness ==
    /\ ~isInitialized
    /\ lastDone = Failed("initialize", "Redis connection failed")
    /\ Truthy(redisClient)
    /\ conns[redisClient.id] = "failed"
    /\ Cardinality(Created) = 1

(***************************************************************************)
(* C20: the server listens only after main()'s db.initialize() completed   *)
(* without raising and the OAuth client was given the store instances the  *)
(* accessors yielded; when initialize() raised, main() ends without        *)
(* app.listen.                                                             *)
(***************************************************************************)
ListenAfterInitialize ==
    /\ mainPc = "listening"
       => /\ mainInit = "ok"
          /\ oauthClient.stateStore.impl \in {"redis", "sqlite"}
          /\ oauthClient.sessionStore.impl \in {"redis", "sqlite"}
    /\ mainInit = "raised" => mainPc \in {"initializing", "failed"}
    /\ mainInit = "pending" => mainPc \in {"start", "initializing"}

\* part_002 listens on Redis stores
ListenAfterInitializeWitness ==
    /\ mainModule = "part_002"
    /\ mainPc = "listening"
    /\ oauthClient.stateStore.impl = "redis"
    /\ Usable(oauthClient.sessionStore)


(***************************************************************************)
(* C21: once an initialize() call has selected a backend, every store and  *)
(* lock instance the manager hands out and every probe healthCheck() makes *)
(* is of that backend, whatever close() and initialize() calls follow and  *)
(* however REDIS_URL changes.                                              *)
(***************************************************************************)
BackendFixed ==
    (isInitialized /\ startBackend # "none")
    => /\ Accessor("stateStore").inst.impl = startBackend
       /\ Accessor("sessionStore").inst.impl = startBackend
       /\ Accessor("requestLock").inst.impl
             = (IF startBackend = "redis" THEN "redis" ELSE "memory")
       /\ HealthNow = (IF startBackend = "redis" THEN "ping" ELSE "query")

\* the connections that are open
OpenConns == {i \in Conns : conns[i] = "open"}

\* the connection objects close() would tear down if it were called now
Owned == {i \in Conns : redisClient = ObjRef(i) \/ sqliteDb = ObjRef(i)}

(***************************************************************************)
(* C22: at most one connection is open at any time, every store and lock   *)
(* instance the accessors yield works on an open connection, and every     *)
(* connection that is open or being opened is one the module variables     *)
(* still refer to, so that close() reaches it.                             *)
(***************************************************************************)
SingleConnection ==
    /\ Cardinality(OpenConns) <= 1
    /\ \A n \in AccessorNames :
          Accessor(n).inst.impl \in {"redis", "sqlite"}
          => Accessor(n).inst.conn \in OpenConns
    /\ \A i \in Conns : conns[i] \in {"open", "connecting"} => i \in Owned

(***************************************************************************)
(* Stored text that no set() wrote: another program, or a damaged file,    *)
(* has put raw text under a key.                                           *)
(***************************************************************************)
\* texts that are not JSON: empty, a cut-off literal, a trailing comma, a
\* cut-off object
Malformed ==
    { <<>>,
      <<"n", "u", "l">>,
      <<"[", "1", ",", "]">>,
      <<"{", "\"", "a", "\"", ":", "1">> }

RawTexts == Malformed \cup {<<"{", "\"", "a", "\"", ":", "1", "}">>}

\* the text stored under the entry or row that store's key names
StoredText(store, key) ==
    IF backend = "redis" THEN RedisGet(redis, key).val
    ELSE SqliteSelect(sqlite, tableName(store), key).value

StoredPresent(store, key) ==
    IF backend = "redis" THEN RedisGet(redis, key).present
    ELSE SqliteSelect(sqlite, tableName(store), key).present

\* SET key text / INSERT OR REPLACE ... by a writer other than set()
Corrupt(store, key, text) ==
    /\ IF backend = "redis"
       THEN redis' = RedisSet(redis, key, text) /\ UNCHANGED sqlite
       ELSE /\ sqlite' = SqliteInsertOrReplace(sqlite, tableName(store), key, text)
            /\ UNCHANGED redis
    /\ lastWrite' = [lastWrite EXCEPT ![key] = [op |-> "raw", store |-> store,
                                                val |-> JsUndefined]]
    /\ lastGet' = NoGet
    /\ UNCHANGED <<backend, appVars, lifeVars, recordVars, lockVars>>

NextCorrupt ==
    \/ \E s \in StoreNames, k \in Keys, t \in RawTexts : Corrupt(s, k, t)
    \/ \E s \in StoreNames, k \in Keys : Get(s, k)
    \/ \E s \in StoreNames, k \in Keys : Del(s, k)

SpecCorrupt == Init /\ [][NextCorrupt]_vars

(***************************************************************************)
(* C23: a get(k) of a record whose stored text is not valid JSON raises:   *)
(* it does not complete with undefined (not found) nor with any value.     *)
(***************************************************************************)
MalformedRaises ==
    (/\ lastGet.store # ""
     /\ StoredPresent(lastGet.store, lastGet.key)
     /\ StoredText(lastGet.store, lastGet.key) \in Malformed)
    => lastGet.out.threw

(***************************************************************************)
(* C24: the OAuth client of a listening server was constructed with the    *)
(* manager's stateStore, its sessionStore and its requestLock: none of the *)
(* three is undefined.                                                     *)
(***************************************************************************)
LockSupplied ==
    mainPc = "listening"
    => /\ oauthClient.stateStore = stateStore
       /\ oauthClient.sessionStore = sessionStore
       /\ oauthClient.requestLock = requestLock
       /\ JsType(oauthClient.requestLock) # "undefined"


(***************************************************************************)
(* The application: the routes of server.js (the same handlers are in      *)
(* features/ and in the test server) on an OAuth client whose authorize,   *)
(* callback, restore and revoke are those of MockOAuthClient, the only     *)
(* client whose code is in the repository.  The test server that builds    *)
(* this client forces the SQLite backend; its store calls are synchronous, *)
(* so a handler's awaits resume in microtasks and no other request runs in *)
(* between: a request is handled in one step.                              *)
(***************************************************************************)
\* Date.now() counts hours; a run covers MaxTime steps of two hours, each
\* long enough for the tokens issued before it to expire
MaxTime == 1

\* if (text.length > 300)
MaxPostLength == 300

DidText(did) ==
    IF did = "did:a" THEN <<"d", "i", "d", ":", "a">> ELSE <<"d", "i", "d", ":", "b">>

handleName == <<"h", "a", "n", "d", "l", "e">>

tokenSetName == <<"t", "o", "k", "e", "n", "S", "e", "t">>

accessTokenName == <<"a", "c", "c", "e", "s", "s", "_", "t", "o", "k", "e", "n">>

expiresAtName == <<"e", "x", "p", "i", "r", "e", "s", "_", "a", "t">>

subName == <<"s", "u", "b">>

\* obj.name: undefined when obj is no object or has no such member
Member(obj, name) ==
    IF obj.t = "obj" /\ \E i \in 1..Len(obj.keys) : obj.keys[i] = name
    THEN obj.kids[CHOOSE i \in 1..Len(obj.keys) : obj.keys[i] = name]
    ELSE JsUndefined

\* if (value)
JsTruthy(value) ==
    ~ \/ value.t \in {"undefined", "null"}
      \/ value.t = "bool" /\ ~value.b
      \/ value.t = "num" /\ value.n = 0
      \/ value.t = "str" /\ value.s = <<>>

\* { handle, timestamp, options }
StateData == JsObj(<<handleName>>, <<JsStr(<<"a">>)>>)

\* { tokenSet: { access_token, expires_at }, sub }
SessionData(sub, token, expires) ==
    JsObj(<<tokenSetName, subName>>,
          <<JsObj(<<accessTokenName, expiresAtName>>, <<JsStr(token), JsNum(expires)>>),
            sub>>)

\* what a client call completes with, and the database as it leaves it
Threw(e, db) == [threw |-> TRUE, err |-> e, db |-> db]

Resolved(db) == [threw |-> FALSE, err |-> "", db |-> db]

\* MockOAuthClient.authorize
authorize(db, state) == SqliteStoreSet(db, "stateStore", state, StateData)

\* a callback that leaves the State Record in place
SessionStartedKeepsState(db, state, did, t) ==
    SqliteStoreSet(db, "sessionStore", did,
                   SessionData(JsStr(DidText(did)), <<"a">>, t + 1))

\* a callback that deletes the State Record and writes no Session Record
SessionStartedUnwritten(db, state, did, t) == SqliteStoreDel(db, "stateStore", state)

\* callback from sessionStore.set on
SessionStarted(db, state, did, t) ==
    SqliteStoreDel(SqliteStoreSet(db, "sessionStore", did,
                                  SessionData(JsStr(DidText(did)), <<"a">>, t + 1)),
                   "stateStore", state)

\* a callback that takes any state for a valid one
ValidatedAny(stateData, db, started) == Resolved(started)

\* callback: if (!stateData) throw new Error('Invalid state parameter')
Validated(stateData, db, started) ==
    IF stateData.threw THEN Threw(stateData.err, db)
    ELSE IF ~JsTruthy(stateData.val) THEN Threw("Invalid state parameter", db)
    ELSE Resolved(started)

\* MockOAuthClient.callback: the state is looked up, the Session Record is
\* written under the DID, the State Record is deleted
callback(db, state, did, t) ==
    Validated(SqliteStoreGet(db, "stateStore", state), db,
              SessionStarted(db, state, did, t))

\* restore from if (!sessionData) on: a Session Record whose token has
\* expired is written back with a new token, under the same key
Restored(sessionData, db, did, t) ==
    IF sessionData.threw THEN Threw(sessionData.err, db)
    ELSE IF ~JsTruthy(sessionData.val) THEN Threw("Session not found for DID", db)
    ELSE IF Member(sessionData.val, tokenSetName).t # "obj" THEN Threw("TypeError", db)
    ELSE IF Member(Member(sessionData.val, tokenSetName), expiresAtName).t = "num"
            /\ Member(Member(sessionData.val, tokenSetName), expiresAtName).n < t
    THEN Resolved(SqliteStoreSet(db, "sessionStore", did,
                                 SessionData(Member(sessionData.val, subName),
                                             <<"r">>, t + 1)))
    ELSE Resolved(db)

\* MockOAuthClient.restore
restore(db, did, t) == Restored(SqliteStoreGet(db, "sessionStore", did), db, did, t)

\* a revoke that answers true and deletes nothing
revokeKeeps(db, did, o) == IF o = "fails" THEN Threw("SqliteError", db) ELSE Resolved(db)

\* MockOAuthClient.revoke: o tells whether sessionStore.del raised
revoke(db, did, o) ==
    IF o = "fails" THEN Threw("SqliteError", db)
    ELSE Resolved(SqliteStoreDel(db, "sessionStore", did))

\* getAgent with no catch: a failed restore leaves the handler
AgentUncaught(restored) ==
    [agent |-> IF restored.threw THEN "throws" ELSE "agent", db |-> restored.db]

\* getAgent: try { restore } catch { return null }
Agent(restored) ==
    [agent |-> IF restored.threw THEN "null" ELSE "agent", db |-> restored.db]

getAgent(db, did, t) == Agent(restore(db, did, t))

\* the cookies a request can carry: none, one signed with COOKIE_SECRET, one
\* sent without signature, one whose signature does not match
Cookies ==
    {NoCookie} \cup {[kind |-> "signed", did |-> d] : d \in Keys}
               \cup {[kind |-> k, did |-> "did:a"] : k \in {"unsigned", "tampered"}}

\* req.signedCookies.user_did: undefined for a missing or unsigned cookie,
\* false for a bad signature ("" stands for both)
signedCookies(cookie) == IF cookie.kind = "signed" THEN cookie.did ELSE ""

\* the text member of a request body: missing, a number, or a string of len
PostTexts ==
    {NoText, [t |-> "num", len |-> 0]}
    \cup {[t |-> "str", len |-> n] : n \in {0, MaxPostLength, MaxPostLength + 1}}

\* a limit of 299 characters
validatePostTextShort(text) ==
    IF text.t = "undefined" \/ (text.t = "str" /\ text.len = 0) \/ text.t # "str"
    THEN "Text required"
    ELSE IF text.len >= MaxPostLength THEN "Text too long (max 300 chars)"
    ELSE ""

\* validatePostText: the error, "" when the text is valid
validatePostText(text) ==
    IF text.t = "undefined" \/ (text.t = "str" /\ text.len = 0) \/ text.t # "str"
    THEN "Text required"
    ELSE IF text.len > MaxPostLength THEN "Text too long (max 300 chars)"
    ELSE ""

Request(route, cookie, state, did, text) ==
    [NoRequest EXCEPT !.route = route, !.cookie = cookie, !.state = state,
                      !.did = did, !.text = text]

Answer(status, body) == [NoResponse EXCEPT !.status = status, !.body = body]

\* the handler is done: the database is as it left it
Handled(req, res, db) ==
    /\ request' = req
    /\ response' = res
    /\ issued' = IF req.route = "login" THEN [issued EXCEPT ![req.state] = "issued"]
                 ELSE IF req.route = "callback" /\ res.status = 302
                 THEN [issued EXCEPT ![req.state] = "used"]
                 ELSE issued
    /\ sqlite' = db
    /\ UNCHANGED <<backend, redis, lastWrite, lastGet, lockVars, recordVars, lifeVars,
                   now>>

\* GET /login?handle=...
Login(state) ==
    Handled(Request("login", NoCookie, state, "", NoText),
            Answer(302, "oauth/authorize"), authorize(sqlite, state))

\* the callback route once oauthClient.callback has settled with r
CallbackDone(state, did, r) ==
    Handled(Request("callback", NoCookie, state, did, NoText),
            IF r.threw THEN Answer(500, "Login failed")
            ELSE [Answer(302, "/") EXCEPT !.setCookie = did],
            r.db)

\* GET /oauth/callback?state=...&did=...
Callback(state, did) == CallbackDone(state, did, callback(sqlite, state, did, now))

\* doubleCsrfProtection refuses a POST without a valid token
CsrfRefused(route) ==
    Handled([Request(route, NoCookie, "", "", NoText) EXCEPT !.csrf = FALSE],
            Answer(403, "invalid csrf token"), sqlite)

\* a logout that answers 500 when the revocation raised
LogoutRevokedStrict(cookie, r) ==
    Handled(Request("logout", cookie, "", "", NoText),
            IF r.threw THEN [Answer(500, "Logout failed") EXCEPT !.revoked = "raised"]
            ELSE [Answer(200, "success") EXCEPT !.setCookie = "cleared",
                                                !.revoked = "done"],
            r.db)

\* the logout route once the revocation has settled with r: the catch logs,
\* then clearCookie and { success: true }
LogoutRevoked(cookie, r) ==
    Handled(Request("logout", cookie, "", "", NoText),
            [Answer(200, "success") EXCEPT !.setCookie = "cleared",
                                           !.revoked = IF r.threw THEN "raised"
                                                       ELSE "done"],
            r.db)

\* POST /logout: if (did) the session is revoked
Logout(cookie, o) ==
    IF signedCookies(cookie) = ""
    THEN /\ o = "ok"
         /\ Handled(Request("logout", cookie, "", "", NoText),
                    [Answer(200, "success") EXCEPT !.setCookie = "cleared"], sqlite)
    ELSE LogoutRevoked(cookie, revoke(sqlite, signedCookies(cookie), o))

\* the me route once getAgent has settled with a
MeDone(cookie, o, a) ==
    /\ a.agent # "agent" => o = "ok"
    /\ Handled(Request("me", cookie, "", "", NoText),
               [(IF a.agent = "throws" \/ (a.agent = "agent" /\ o = "fails")
                 THEN Answer(500, "Failed to fetch profile")
                 ELSE IF a.agent = "null" THEN Answer(200, "loggedIn: false")
                 ELSE Answer(200, "loggedIn: true"))
                   EXCEPT !.restored = TRUE],
               a.db)

\* GET /api/me: o tells whether agent.getProfile raised
Me(cookie, o) ==
    IF signedCookies(cookie) = ""
    THEN /\ o = "ok"
         /\ Handled(Request("me", cookie, "", "", NoText),
                    Answer(200, "loggedIn: false"), sqlite)
    ELSE MeDone(cookie, o, getAgent(sqlite, signedCookies(cookie), now))

\* the post route once getAgent has settled with a: agent.post on the null
\* of a failed restore raises a TypeError
PostDone(cookie, text, o, a) ==
    /\ a.agent # "agent" => o = "ok"
    /\ Handled(Request("post", cookie, "", "", text),
               [(IF a.agent # "agent" \/ o = "fails"
                 THEN Answer(500, "Failed to post")
                 ELSE [Answer(200, "success") EXCEPT !.published = TRUE])
                   EXCEPT !.restored = TRUE],
               a.db)

\* POST /api/post: o tells whether agent.post raised
Post(cookie, text, o) ==
    IF signedCookies(cookie) = ""
    THEN /\ o = "ok"
         /\ Handled(Request("post", cookie, "", "", text),
                    Answer(401, "Not logged in"), sqlite)
    ELSE IF validatePostText(text) # ""
    THEN /\ o = "ok"
         /\ Handled(Request("post", cookie, "", "", text),
                    Answer(400, validatePostText(text)), sqlite)
    ELSE PostDone(cookie, text, o, getAgent(sqlite, signedCookies(cookie), now))

\* two hours pass
Tick ==
    /\ now < 2 * MaxTime
    /\ now' = now + 2
    /\ UNCHANGED <<backend, storeVars, lockVars, recordVars, lifeVars, issued, request,
                   response>>

\* the test server: db.initialize() with REDIS_URL deleted
InitApp ==
    /\ backend = "sqlite"
    /\ NothingStored
    /\ Connected("sqlite")

NextApp ==
    \/ \E s \in Keys : Login(s)
    \/ \E s \in Keys, d \in Keys : Callback(s, d)
    \/ \E r \in {"logout", "post"} : CsrfRefused(r)
    \/ \E c \in Cookies, o \in {"ok", "fails"} : Logout(c, o)
    \/ \E c \in Cookies, o \in {"ok", "fails"} : Me(c, o)
    \/ \E c \in Cookies, t \in PostTexts, o \in {"ok", "fails"} : Post(c, t, o)
    \/ Tick

SpecApp == InitApp /\ [][NextApp]_vars


(***************************************************************************)
(* Properties of the OAuth flow                                            *)
(***************************************************************************)
\* C25: a State Record is single-use: a login leaves a record under the state
\* it issued, a callback that succeeds leaves none under its state, and a
\* callback presenting a state that an earlier callback has used fails and
\* leaves every Session Record as it was.
StateSingleUse ==
    [][now' = now =>
        /\ request'.route = "login" => sqlite'["auth_state"][request'.state].present
        /\ request'.route = "callback" /\ response'.status = 302 =>
               /\ sqlite["auth_state"][request'.state].present
               /\ ~sqlite'["auth_state"][request'.state].present
        /\ request'.route = "callback" /\ issued[request'.state] = "used" =>
               /\ response'.status = 500
               /\ sqlite'["auth_session"] = sqlite["auth_session"]]_vars

\* a callback has presented a used state while a Session Record was stored
SecondCallbackRefused ==
    /\ request.route = "callback"
    /\ issued[request.state] = "used"
    /\ response.status = 500
    /\ \E d \in Keys : sqlite["auth_session"][d].present

\* C26: a callback whose state no login has issued answers 500 'Login
\* failed', writes no Session Record and sets no user_did cookie.
UnissuedStateFails ==
    [][now' = now /\ request'.route = "callback" /\ issued[request'.state] = "never" =>
        /\ response' = Answer(500, "Login failed")
        /\ sqlite' = sqlite]_vars

\* a callback has presented a state that was never issued
UnissuedStatePresented ==
    /\ request.route = "callback"
    /\ issued[request.state] = "never"
    /\ response.status = 500
    /\ response.setCookie = ""

\* C27: sessionStore.get of a DID answers a record whose sub is the DID while
\* a Session Record is stored under it, and undefined while none is; a
\* callback that succeeds for a DID leaves a record under it and a logout
\* whose revocation succeeds leaves none; a record appears only by such a
\* callback, disappears only by such a logout, and in between changes only
\* by a callback for the same DID or by a restore of that DID.
SessionLifecycle ==
    /\ [](\A d \in Keys :
            IF sqlite["auth_session"][d].present
            THEN Member(SqliteStoreGet(sqlite, "sessionStore", d).val, subName)
                     = JsStr(DidText(d))
            ELSE SqliteStoreGet(sqlite, "sessionStore", d) = Returned(JsUndefined))
    /\ [][now' = now =>
           /\ request'.route = "callback" /\ response'.status = 302 =>
                  sqlite'["auth_session"][request'.did].present
           /\ request'.route = "logout" /\ response'.revoked = "done" =>
                  ~sqlite'["auth_session"][request'.cookie.did].present
           /\ \A d \in Keys :
                  /\ ~sqlite["auth_session"][d].present /\ sqlite'["auth_session"][d].present
                         => /\ request'.route = "callback"
                            /\ response'.status = 302
                            /\ request'.did = d
                  /\ sqlite["auth_session"][d].present /\ ~sqlite'["auth_session"][d].present
                         => /\ request'.route = "logout"
                            /\ response'.revoked = "done"
                            /\ request'.cookie.did = d
                  /\ sqlite["auth_session"][d].present /\ sqlite'["auth_session"][d].present
                         /\ sqlite'["auth_session"][d] # sqlite["auth_session"][d]
                         => \/ /\ request'.route = "callback"
                               /\ response'.status = 302
                               /\ request'.did = d
                            \/ /\ response'.restored
                               /\ request'.cookie.did = d]_vars

\* a restore has written a refreshed Session Record back under its DID
SessionRefreshedInPlace ==
    /\ request.route = "me"
    /\ request.cookie.kind = "signed"
    /\ response.restored
    /\ Member(Member(SqliteStoreGet(sqlite, "sessionStore", request.cookie.did).val,
                     tokenSetName), accessTokenName) = JsStr(<<"r">>)

\* C28: a logout that passes the CSRF check clears the user_did cookie and
\* answers success, with or without a user_did cookie and whether the
\* revocation succeeded or raised.
LogoutAlwaysSucceeds ==
    [][now' = now /\ request'.route = "logout" /\ request'.csrf =>
        /\ response'.status = 200
        /\ response'.body = "success"
        /\ response'.setCookie = "cleared"]_vars

\* a logout whose revocation raised has answered
LogoutAfterRaise ==
    /\ request.route = "logout"
    /\ request.csrf
    /\ response.revoked = "raised"
    /\ response.setCookie = "cleared"

\* C29: the me route answers loggedIn: true only for a validly signed cookie
\* whose DID has a session that restores; without a cookie, with an unsigned
\* or tampered one, or for a DID without Session Record it answers 200 with
\* loggedIn: false.
MeLoggedIn ==
    [][now' = now /\ request'.route = "me" =>
        /\ response'.body = "loggedIn: true" =>
               /\ request'.cookie.kind = "signed"
               /\ ~restore(sqlite, request'.cookie.did, now).threw
        /\ (request'.cookie.kind = "signed"
               => ~sqlite["auth_session"][request'.cookie.did].present)
               => /\ response'.status = 200
                  /\ response'.body = "loggedIn: false"]_vars

\* the me route has answered a signed cookie whose DID has no Session Record
MeWithoutSession ==
    /\ request.route = "me"
    /\ request.cookie.kind = "signed"
    /\ response.restored
    /\ response.body = "loggedIn: false"

\* C30: the post route publishes only for a signed cookie, a string of 1 to
\* 300 characters and a session that restores; without a signed cookie it
\* answers 401 whatever the text, with invalid text 400 before any restore;
\* 300 characters pass the text check and 301 do not; any other answer than
\* success has published nothing.
PostChecks ==
    [][now' = now /\ request'.route = "post" /\ request'.csrf =>
        /\ response'.published =>
               /\ request'.cookie.kind = "signed"
               /\ request'.text.t = "str"
               /\ request'.text.len \in 1..MaxPostLength
               /\ ~restore(sqlite, request'.cookie.did, now).threw
        /\ request'.cookie.kind # "signed" =>
               /\ response'.status = 401
               /\ ~response'.restored
               /\ sqlite' = sqlite
        /\ request'.cookie.kind = "signed"
               /\ ~(request'.text.t = "str" /\ request'.text.len \in 1..MaxPostLength)
               => /\ response'.status = 400
                  /\ ~response'.restored
                  /\ sqlite' = sqlite
        /\ request'.cookie.kind = "signed" /\ request'.text.t = "str"
               /\ request'.text.len = MaxPostLength
               => response'.status # 400 /\ response'.restored
        /\ request'.cookie.kind = "signed" /\ request'.text.t = "str"
               /\ request'.text.len = MaxPostLength + 1
               => response'.status = 400
        /\ response'.status # 200 => ~response'.published]_vars

\* a text of exactly 300 characters has been published
PostOfMaxLength ==
    /\ request.route = "post"
    /\ request.text.len = MaxPostLength
    /\ response.published


(***************************************************************************)
(* The health route, the feed route                                        *)
(***************************************************************************)
\* a route that sends the body without res.status(statusCode)
HealthRouteNoStatus(done) ==
    IF done.threw THEN Answer(503, "unhealthy")
    ELSE Answer(200, IF done.val = "true" THEN "healthy" ELSE "degraded")

\* GET /api/health on the completion of its await db.healthCheck()
HealthRoute(done) ==
    IF done.threw THEN Answer(503, "unhealthy")
    ELSE IF done.val = "true" THEN Answer(200, "healthy")
    ELSE Answer(503, "degraded")

\* characters a limit parameter is written with
MaxLimitLen == 2

\* parseInt(req.query.limit, 10) || 20
DefaultLimit == 20

\* Math.max(limit, 1)
MinLimit == 1

\* Math.min(..., 50)
MaxLimit == 50

LimitChars == {"-", "0", "5", "x"}

\* the values of req.query.limit: absent, or a text
Limits ==
    {NoLimit} \cup
    {[present |-> TRUE, text |-> t] :
        t \in UNION {[1..n -> LimitChars] : n \in 0..MaxLimitLen}}

NaN == [nan |-> TRUE, n |-> 0]

\* the number the sign and the digits d stand for; NaN when there is no digit
Parsed(neg, body, d) ==
    IF d.rest = body THEN NaN
    ELSE [nan |-> FALSE, n |-> IF neg THEN 0 - d.n ELSE d.n]

\* parseInt(text, 10): an optional sign, then the digits up to the first other
\* character (the texts here hold no white space to skip)
parseInt(text) ==
    IF text # <<>> /\ Head(text) \in {"-", "+"}
    THEN Parsed(Head(text) = "-", Tail(text), ParseDigits(Tail(text), 0))
    ELSE Parsed(FALSE, text, ParseDigits(text, 0))

\* number || 20: NaN and 0 are falsy
OrDefault(number) == IF number.nan \/ number.n = 0 THEN DefaultLimit ELSE number.n

\* Math.min(Math.max(limit, 1), 50)
Clamp(n) ==
    IF (IF n > MinLimit THEN n ELSE MinLimit) < MaxLimit
    THEN (IF n > MinLimit THEN n ELSE MinLimit)
    ELSE MaxLimit

\* the limit the feed route hands to getTimeline: parseInt(undefined) is NaN
feedLimit(limit) ==
    Clamp(OrDefault(IF limit.present THEN parseInt(limit.text) ELSE NaN))

\* the feed route once getAgent has settled with a: getTimeline answers no
\* posts for a session that does not restore
FeedDone(cookie, limit, o, a) ==
    /\ a.agent # "agent" => o = "ok"
    /\ Handled([Request("feed", cookie, "", "", NoText) EXCEPT !.limit = limit],
               [(IF a.agent = "throws" \/ (a.agent = "agent" /\ o = "fails")
                 THEN Answer(500, "Failed to fetch feed")
                 ELSE IF a.agent = "null" THEN Answer(200, "no posts")
                 ELSE Answer(200, "timeline"))
                   EXCEPT !.restored = TRUE, !.limit = feedLimit(limit)],
               a.db)

\* GET /api/feed?limit=...: o tells whether agent.getTimeline raised
Feed(cookie, limit, o) ==
    IF signedCookies(cookie) = ""
    THEN /\ o = "ok"
         /\ Handled([Request("feed", cookie, "", "", NoText) EXCEPT !.limit = limit],
                    Answer(401, "Not logged in"), sqlite)
    ELSE FeedDone(cookie, limit, o, getAgent(sqlite, signedCookies(cookie), now))

\* one user logs in and reads the feed
NextFeed ==
    \/ Login("did:a")
    \/ Callback("did:a", "did:a")
    \/ \E c \in {NoCookie, [kind |-> "signed", did |-> "did:a"]}, l \in Limits,
          o \in {"ok", "fails"} : Feed(c, l, o)

SpecFeed == InitApp /\ [][NextFeed]_vars

\* C31: the health route answers 200 'healthy' exactly when healthCheck()
\* returned true, which it does only for an initialized manager whose probe
\* succeeded, and 503 in every other case.
HealthEndpoint ==
    lastDone.op = "healthCheck" =>
        /\ HealthRoute(lastDone) = Answer(200, "healthy")
               <=> ~lastDone.threw /\ lastDone.val = "true"
        /\ HealthRoute(lastDone).status = 200 <=> lastDone.probe = "ok"
        /\ HealthRoute(lastDone).status \in {200, 503}

\* the health route has answered 503 for a manager that close() had reset
HealthOfClosedManager ==
    /\ lastDone.op = "healthCheck"
    /\ lastDone.probe = "none"
    /\ redisClient = NullRef
    /\ HealthRoute(lastDone).status = 503

\* C32: the limit the feed route hands to the timeline fetch is an integer
\* from 1 to 50: 20 for an absent limit or one that parseInt reads no number
\* from, 1 for a number below 1, 50 for a number above 50.
FeedLimitClamped ==
    request.route = "feed" /\ response.restored =>
        /\ response.limit \in MinLimit..MaxLimit
        /\ ~request.limit.present \/ parseInt(request.limit.text).nan
               => response.limit = DefaultLimit
        /\ request.limit.present /\ ~parseInt(request.limit.text).nan
               /\ parseInt(request.limit.text).n < MinLimit
               => response.limit = MinLimit
        /\ request.limit.present /\ ~parseInt(request.limit.text).nan
               /\ parseInt(request.limit.text).n > MaxLimit
               => response.limit = MaxLimit


(***************************************************************************)
(* Isolation of the stores and of the lock entries                         *)
(***************************************************************************)
\* the keys a store call can name: any string, among them one that reads
\* like the lock entry of another key (a SQLite table holds the keys of Keys)
StoreKeys == IF backend = "redis" THEN RedisKeys ELSE Keys

\* store.set(key, val) by a request that holds no lock
SetAt(store, key, val) ==
    /\ key \in StoreKeys
    /\ IF backend = "redis"
       THEN redis' = RedisStoreSet(redis, key, val) /\ UNCHANGED sqlite
       ELSE sqlite' = SqliteStoreSet(sqlite, store, key, val) /\ UNCHANGED redis
    /\ lastWrite' = [lastWrite EXCEPT ![key] = [op |-> "set", store |-> store, val |-> val]]
    /\ UNCHANGED <<backend, appVars, lifeVars, recordVars, lockVars, lastGet>>

\* store.del(key) by a request that holds no lock
DelAt(store, key) ==
    /\ key \in StoreKeys
    /\ IF backend = "redis"
       THEN redis' = RedisStoreDel(redis, key) /\ UNCHANGED sqlite
       ELSE sqlite' = SqliteStoreDel(sqlite, store, key) /\ UNCHANGED redis
    /\ lastWrite' = [lastWrite EXCEPT ![key] = [op |-> "del", store |-> store,
                                               val |-> JsUndefined]]
    /\ UNCHANGED <<backend, appVars, lifeVars, recordVars, lockVars, lastGet>>

\* one withLock call for the key did:a next to store calls of other requests
NextShared ==
    \/ \E sync \in BOOLEAN : Call(1, "did:a", sync)
    \/ \E sync \in BOOLEAN : Retry(1, sync)
    \/ FnGet(1)
    \/ FnSet(1)
    \/ FnThrow(1)
    \/ RunMicrotask(1)
    \/ ReleaseGet(1)
    \/ ReleaseDel(1)
    \/ Expire("did:a")
    \/ \E k \in {"did:a", "did:b", lockKey("did:a")} : SetAt("stateStore", k, LifeValue)
    \/ \E k \in {"did:a", "did:b", lockKey("did:a")} : DelAt("stateStore", k)

SpecShared == Init /\ [][NextShared]_vars

\* C33: a set or del on one store never changes what get of the same key
\* answers on the other store, in both backends.
StoresIsolated ==
    [][\A k \in Keys :
          lastWrite'[k] # lastWrite[k] =>
              \A t \in StoreNames \ {lastWrite'[k].store} :
                  (IF backend = "redis" THEN RedisStoreGet(redis', k)
                   ELSE SqliteStoreGet(sqlite', t, k)) = StoreGet(t, k)]_vars

\* C34: lock entries and store records do not interfere: a store set or del
\* leaves every lock entry, of Redis and of the in-process Map, as it was,
\* and a step in which a withLock call acquires or releases leaves what
\* every store get answers as it was.
LocksAndRecordsApart ==
    [][/\ lastWrite' # lastWrite =>
              /\ \A k \in Keys : redis'[lockKey(k)] = redis[lockKey(k)]
              /\ inMemoryLocks' = inMemoryLocks
       /\ (\E p \in Callers :
              /\ pc'[p] # pc[p]
              /\ pc[p] \in {"idle", "retry", "waiting", "relDel"} \/ pc'[p] = "done")
              => /\ \A k \in Keys : redis'[k] = redis[k]
                 /\ \A k \in Keys : RedisStoreGet(redis', lockKey(k))
                                        = RedisStoreGet(redis, lockKey(k))
                 /\ sqlite' = sqlite]_vars

(***************************************************************************)
(* The in-process lock under callers that keep arriving                    *)
(*                                                                         *)
(* A caller whose withLock call has completed calls again.  Critical       *)
(* sections terminate and the microtask queue is drained: these are the    *)
(* fairness conditions.  When a call arrives is left open.                 *)
(***************************************************************************)
\* Session Record updates after which critical sections only read and raise
MaxUpdates == 1

\* the caller's next withLock call: nothing of the completed one is kept
Again(p) ==
    /\ backend = "sqlite"
    /\ pc[p] = "done"
    /\ pc' = [pc EXCEPT ![p] = "idle"]
    /\ lkey' = [lkey EXCEPT ![p] = ""]
    /\ fnCalls' = [fnCalls EXCEPT ![p] = 0]
    /\ fnOutcome' = [fnOutcome EXCEPT ![p] = NoOutcome]
    /\ result' = [result EXCEPT ![p] = NoOutcome]
    /\ UNCHANGED <<backend, appVars, lifeVars, recordVars, storeVars, inMemoryLocks,
                   waiters, microtasks, attempts, found, local, updates, outlived>>

\* fn returns: by its write, or by raising
FnEnd(p) ==
    \/ pc[p] = "fnSet" /\ updates[lkey[p]] < MaxUpdates /\ FnSet(p)
    \/ FnThrow(p)

InitArrive == Init /\ backend = "sqlite"

NextArrive ==
    \/ \E p \in 1..NMemCallers, sync \in BOOLEAN : Call(p, "did:a", sync)
    \/ \E p \in 1..NMemCallers : FnGet(p)
    \/ \E p \in 1..NMemCallers : FnEnd(p)
    \/ \E p \in 1..NMemCallers : RunMicrotask(p)
    \/ \E p \in 1..NMemCallers : Again(p)

SpecArrive ==
    /\ InitArrive
    /\ [][NextArrive]_vars
    /\ WF_vars(\E p \in 1..NMemCallers : RunMicrotask(p))
    /\ \A p \in 1..NMemCallers : WF_vars(FnGet(p)) /\ WF_vars(FnEnd(p))

\* C35: in-process lock liveness.  Critical sections terminate and
\* continuations are run, and so a withLock call that has to wait executes
\* its critical section in the end, whatever other callers of the key do.
WaiterNotStarved ==
    (pc[1] = "waiting") ~> (pc[1] \in {"fnGet", "done"})


(***************************************************************************)
(* The Redis lock: a refused acquire                                       *)
(***************************************************************************)
\* C36: a Redis withLock call whose SET NX PX is refused, at the first
\* attempt or at the retry, leaves the lock entry of its key as it found it:
\* the value and the expiry the holder gave it stay, and the entry is not
\* deleted.
FailedAcquireKeepsEntry ==
    [][\A p \in Callers :
          (attempts'[p] # attempts[p] /\ pc'[p] \in {"retry", "failed"})
          => /\ redis'[lockKey(lkey'[p])] = redis[lockKey(lkey'[p])]
             /\ found'[p] = redis[lockKey(lkey'[p])]]_vars

\* a call has raised "Could not acquire lock" and the holder's entry stands
RefusedBesideHolder ==
    \E p, q \in Callers :
        /\ pc[p] = "failed"
        /\ attempts[p] = 2
        /\ InCS(q)
        /\ OwnsLock(redis[lockKey(lkey[p])], q)
        /\ found[p] = redis[lockKey(lkey[p])]


(***************************************************************************)
(* initialize() beside close() calls in flight                             *)
(*                                                                         *)
(* Call 0 is the initialize() call that is watched: mainInit tells how it  *)
(* completed.  The other calls initialize and close as they like, but a    *)
(* close() is started only while call 0 has not completed.                 *)
(***************************************************************************)
NextOverlap ==
    \/ \E c \in 1..NCalls : Initialize(c)
    \/ mainInit = "pending" /\ Initialize(0)
    \/ \E c \in LifeCalls : ConnectResolved(c)
    \/ \E c \in LifeCalls : ConnectRejected(c)
    \/ mainInit = "pending" /\ \E c \in 1..NCalls : Close(c)
    \/ \E c \in 1..NCalls, q \in {"ok", "fails"}, o \in {"ok", "fails"} : QuitDone(c, q, o)

SpecOverlap == InitLife /\ [][NextOverlap]_vars

\* C37: once an initialize() call has completed without raising, and as long
\* as no close() call is started after that, the manager is INITIALIZED and
\* its accessors do not raise, whatever close() calls were in flight when
\* initialize() was called.
InitializedUntilClosed ==
    mainInit = "ok"
    => isInitialized /\ \A n \in AccessorNames : ~Accessor(n).out.threw


(***************************************************************************)
(* What a failed initialize() leaves behind                                *)
(***************************************************************************)
\* C38: an initialize() that raised has left no client reference in the
\* manager, and in an INITIALIZED manager healthCheck() and close() go to
\* the backend the stores are built on: to redisClient exactly when the
\* stores are Redis stores, to sqliteDb exactly when they are SQLite stores.
FailedInitializeKeepsNothing ==
    /\ (lastDone.op = "initialize" /\ lastDone.threw)
       => ~Truthy(redisClient) /\ ~Truthy(sqliteDb)
    /\ isInitialized
       => /\ HealthNow = "ping" <=> stateStore.impl = "redis"
          /\ HealthNow = "query" <=> stateStore.impl = "sqlite"
          /\ Truthy(redisClient) <=> sessionStore.impl = "redis"
          /\ Truthy(sqliteDb) <=> sessionStore.impl = "sqlite"


(***************************************************************************)
(* withLock called from inside a critical section                          *)
(*                                                                         *)
(* Caller 1 is the outer call withLock(k, f), caller 2 the call            *)
(* withLock(k, g) that f makes.  f either awaits that call and returns     *)
(* what it completes with, or lets it run and goes on with its own read    *)
(* and write.  g is the read-modify-write of the other callers.            *)
(***************************************************************************)
\* fn of p calls withLock(lkey[p], g): the call q runs up to its first await
NestedCall(p, q, awaited) ==
    LET key == lkey[p]
        at == [pc EXCEPT ![p] = IF awaited THEN "fnNested" ELSE @]
    IN  /\ InCS(p)
        /\ pc[q] = "idle"
        /\ lkey' = [lkey EXCEPT ![q] = key]
        /\ IF backend = "redis"
           THEN /\ attempts' = [attempts EXCEPT ![q] = 1]
                /\ redis' = RedisSetNXPX(redis, lockKey(key), lockValue(q))
                /\ IF Acquired(redis, lockKey(key))
                   THEN /\ InvokeFn(q, FALSE)
                        /\ pc' = [at EXCEPT ![q] = "fnGet"]
                        /\ UNCHANGED found
                   ELSE /\ pc' = [at EXCEPT ![q] = "retry"]
                        /\ found' = [found EXCEPT ![q] = RedisGet(redis, lockKey(key))]
                        /\ UNCHANGED <<fnCalls, fnOutcome>>
                /\ UNCHANGED <<inMemoryLocks, waiters>>
           ELSE /\ IF MustWait(inMemoryLocks, key, FALSE)
                   THEN /\ waiters' = [waiters EXCEPT ![inMemoryLocks[key]] = Append(@, q)]
                        /\ pc' = [at EXCEPT ![q] = "waiting"]
                        /\ UNCHANGED <<inMemoryLocks, fnCalls, fnOutcome>>
                   ELSE /\ InvokeFn(q, FALSE)
                        /\ inMemoryLocks' = [inMemoryLocks EXCEPT ![key] = q]
                        /\ pc' = [at EXCEPT ![q] = "fnGet"]
                        /\ UNCHANGED waiters
                /\ UNCHANGED <<redis, attempts, found>>
        /\ UNCHANGED <<backend, appVars, lifeVars, recordVars, sqlite, lastWrite, lastGet,
                       microtasks, local, result, updates, outlived>>

\* the call fn awaited has completed: fn returns, or raises, what it did
NestedReturn(p, q) ==
    /\ pc[p] = "fnNested"
    /\ pc[q] \in {"done", "failed"}
    /\ Settle(p, result[q])
    /\ UNCHANGED <<backend, appVars, lifeVars, recordVars, storeVars, inMemoryLocks, waiters,
                   lkey, attempts, found, fnCalls, result, updates, outlived>>

NextNested ==
    \/ Call(1, "did:a", FALSE)
    \/ \E awaited \in BOOLEAN : NestedCall(1, 2, awaited)
    \/ NestedReturn(1, 2)
    \/ \E sync \in BOOLEAN : Retry(2, sync)
    \/ \E p \in 1..2 : FnGet(p)
    \/ \E p \in 1..2 : FnSet(p)
    \/ \E p \in 1..2 : FnThrow(p)
    \/ \E p \in 1..2 : RunMicrotask(p)
    \/ \E p \in 1..2 : ReleaseGet(p)
    \/ \E p \in 1..2 : ReleaseDel(p)
    \/ Expire("did:a")

SpecNested == Init /\ [][NextNested]_vars

\* f has been invoked and has not completed
FRunning == pc[1] \in {"fnGet", "fnSet", "fnNested"}

\* C39, as stated: g is never executing while f is running; with the
\* in-process lock the outer call never completes once f has made the inner
\* call; with the Redis lock the inner call is refused and raises.
NotReentrant ==
    /\ ~(FRunning /\ InCS(2))
    /\ (backend = "sqlite" /\ lkey[2] # "") => pc[1] # "done"
    /\ (backend = "redis" /\ lkey[2] # "") => pc[2] \in {"retry", "failed"}

\* C39, amended: with the in-process lock g is never executing while f is
\* running, and when f awaits the inner call neither call ever completes;
\* with the Redis lock, as long as the outer call's entry has not expired
\* while it was held, g is never executing while f is running, and when f
\* awaits the inner call that call is refused twice and raises "Could not
\* acquire lock" with g never invoked.
NotReentrantWithinExpiry ==
    /\ [](/\ backend = "sqlite" => ~(FRunning /\ InCS(2))
          /\ (backend = "sqlite" /\ pc[1] = "fnNested")
             => pc[2] = "waiting" /\ fnCalls[2] = 0
          /\ (backend = "redis" /\ "did:a" \notin outlived)
             => /\ ~(FRunning /\ InCS(2))
                /\ pc[1] = "fnNested"
                   => /\ pc[2] \in {"retry", "failed"}
                      /\ fnCalls[2] = 0
                      /\ pc[2] = "failed"
                         => result[2] = Raised("Could not acquire lock"))
    /\ [][(backend = "sqlite" /\ pc[1] = "fnNested") => pc'[1] = "fnNested"]_vars

\* Redis: f awaited the inner call, which was refused twice; the outer call
\* has completed with the inner call's error and g was never invoked
InnerCallRefused ==
    /\ backend = "redis"
    /\ "did:a" \notin outlived
    /\ pc[2] = "failed"
    /\ attempts[2] = 2
    /\ fnCalls[2] = 0
    /\ pc[1] = "done"
    /\ result[1] = Raised("Could not acquire lock")


(***************************************************************************)
(* The callback, step by step                                              *)
(*                                                                         *)
(* MockOAuthClient.callback awaits three store calls in a row: the get of  *)
(* the State Record, the set of the Session Record, the del of the State   *)
(* Record.  A store call that raises ends the callback where it stands.    *)
(***************************************************************************)
CallbackFaults == {"ok", "setFails", "delFails"}

\* callback: await this.sessionStore.set(did, { tokenSet, sub })
SessionWritten(db, did, t) ==
    SqliteStoreSet(db, "sessionStore", did, SessionData(JsStr(DidText(did)), <<"a">>, t + 1))

\* callback, o telling which store call raised; r is what it completes
\* with when none does
callbackUpTo(db, did, t, o, r) ==
    IF r.threw \/ o = "ok" THEN r
    ELSE IF o = "setFails" THEN Threw("SqliteError", db)
    ELSE Threw("SqliteError", SessionWritten(db, did, t))

\* GET /oauth/callback?state=...&did=..., o as above
CallbackWith(state, did, o) ==
    /\ callback(sqlite, state, did, now).threw => o = "ok"
    /\ CallbackDone(state, did,
                    callbackUpTo(sqlite, did, now, o, callback(sqlite, state, did, now)))

NextCallback ==
    \/ \E s \in Keys : Login(s)
    \/ \E s \in Keys, d \in Keys, o \in CallbackFaults : CallbackWith(s, d, o)
    \/ \E c \in Cookies, o \in {"ok", "fails"} : Logout(c, o)

SpecCallback == InitApp /\ [][NextCallback]_vars

\* C40: callback ordering.  A callback response carries the user_did cookie
\* of DID d only when the Session Record of d is stored, so that
\* sessionStore.get(d) yields a record as the response is sent; a callback
\* that removes the State Record has the Session Record stored by then; and
\* a callback that fails without having changed the Session Records leaves
\* the State Records as they were.
CallbackOrdering ==
    /\ []((request.route = "callback" /\ response.setCookie \in Keys)
          => /\ response.status = 302
             /\ response.setCookie = request.did
             /\ ~SqliteStoreGet(sqlite, "sessionStore", request.did).threw
             /\ JsTruthy(SqliteStoreGet(sqlite, "sessionStore", request.did).val))
    /\ [][request'.route = "callback"
          => /\ (/\ sqlite["auth_state"][request'.state].present
                 /\ ~sqlite'["auth_state"][request'.state].present)
                => sqlite'["auth_session"][request'.did].present
             /\ (/\ response'.status = 500
                 /\ sqlite'["auth_session"] = sqlite["auth_session"])
                => sqlite'["auth_state"] = sqlite["auth_state"]]_vars

\* the Session Record could not be written: the callback answered 500 with
\* no cookie, no Session Record of the DID exists and the State Record that
\* was issued is still there
CallbackFailedBeforeSession ==
    /\ request.route = "callback"
    /\ response.status = 500
    /\ response.setCookie = ""
    /\ issued[request.state] = "issued"
    /\ sqlite["auth_state"][request.state].present
    /\ ~sqlite["auth_session"][request.did].present
    /\ \E s \in Keys : issued[s] = "used"


====
